---- MODULE Spec2Model ----
(***************************************************************************)
(* State-machine model of prep, a terminal front-end for mise.             *)
(*                                                                         *)
(* The controller (type model) is a value that Update folds messages into. *)
(* It is modelled as one record-valued variable m; every handler is an     *)
(* operator from a model value (and a message) to a result holding the     *)
(* new model value, the commands the handler returns (tea.Cmd) and the     *)
(* side effects it performs on objects outside the model value (the file   *)
(* watcher, the task's cancellation handle).  Commands run outside the     *)
(* controller and come back as messages in any order.                      *)
(***************************************************************************)
EXTENDS Integers, Sequences, FiniteSets, Bags, TLC

VARIABLES
    m,        \* the controller state (type model)
    pending,  \* bag of asynchronous commands issued and not yet completed
    procs,    \* task processes started by runTask and not yet reaped
    nruns,    \* number of piped task runs started so far
    watcherOpen, \* TRUE while the fsnotify watcher started by the controller is open
    now,      \* wall clock, milliseconds
    status,   \* "running", "quit" (the loop ended) or "panic"
    hist,     \* history: the lines handled since the last task start
    shown,    \* history: the names unmasked by v or V and not hidden by h since
    dones,    \* history: the number of taskDoneMsg the runs have produced
    last,     \* history: the latest message other than a key that changed
              \* nothing, what Update returned for it, and when
    input,    \* what a specification is started with: the runs the user may
              \* start, or the inputs of the function it applies
    ret       \* the function that returned and what it returned

vars == <<m, pending, procs, nruns, watcherOpen, now, status, hist, shown, dones, last, input, ret>>

----------------------------------------------------------------------------
(* Bounds of the model *)

\* piped task runs per behaviour
MaxRuns == 1
\* piped task runs per behaviour of the rerun specification
Reruns == 2
\* lines one task process writes
MaxLines == 1
\* copies of one command that may be in flight at once
MaxPending == 1
\* clock ticks per behaviour (each of TickStep milliseconds)
MaxTicks == 3
\* lines of the long run of the output specification
LongRun == 5
\* lines the task of the streams specification writes to stdout and to stderr
OutLines == 2
ErrLines == 1
\* tasks in a collection the filter specification filters
MaxTasks == 3
\* records in a collection the sort specification loads
MaxRecords == 3
\* file-system events and calls of Close in the watcher specification
MaxEvents == 2
MaxCloses == 2
\* window heights and row counts of the layout specification
MaxHeight == 30
MaxRows == 6
\* capacity of the output buffer: maxOutputLines is 10000 in the source
\* (handlers.go:1582); the model runs handleTaskOutput with a capacity small
\* enough for a run to overflow it
maxOutputLines == 3

----------------------------------------------------------------------------
(* Program constants *)

debounceInterval == 500

focusTasks == 0
focusTools == 1
focusEnvVars == 2
focusSectionCount == 3

pickerClosed == 0
pickerSelectTool == 1
pickerLoadingVersions == 2
pickerSelectVersion == 3
pickerSelectConfig == 4
pickerInstalling == 5

priorityParentDirBase == 1000
priorityHomeDir == 10000
prioritySystemDir == 100000
priorityUnknown == 999999

minToolRowFields == 2

minTableHeight == 4
headerLines == 3
sectionTitleLines == 1
sectionSpacerLines == 1
helpLines == 2
numTables == 3
tableHeaderHeight == 2

\* the nil error / nil pointer
Nil == "nil"
\* the return value of a function specification before the call
NoReturn == [fn |-> Nil, out |-> Nil]
\* the mask maskValue shows for a non-empty value
Mask == "********"
\* m.lastReload before any reload: the zero time.Time
ZeroTime == -1
\* the step by which the modelled clock advances
TickStep == 250

----------------------------------------------------------------------------
(* Small helpers *)

Min(a, b) == IF a < b THEN a ELSE b
Max(a, b) == IF a > b THEN a ELSE b
clamp(v, low, high) == Min(Max(v, low), high)

\* s[from..] with a 0-based Go index
SliceFrom(s, from) == SubSeq(s, from + 1, Len(s))

\* byte order of the strings the model uses (cmp.Compare on strings)
StrOrder == <<"", "API_KEY", "SECRET", "TOKEN", "build", "deploy", "go", "node", "test">>
StrRank(s) == CHOOSE i \in 1..Len(StrOrder) : StrOrder[i] = s

----------------------------------------------------------------------------
(* Paths: absolute paths are sequences of components *)

cwd == <<"home", "u", "proj">>
homeDir == <<"home", "u">>

IsPrefix(p, q) == Len(p) <= Len(q) /\ SubSeq(q, 1, Len(p)) = p
Dir(p) == SubSeq(p, 1, Len(p) - 1)

CfgCwd == <<"home", "u", "proj", "mise.toml">>
CfgSub == <<"home", "u", "proj", "sub", "mise.toml">>
CfgParent == <<"home", "u", "mise.toml">>
CfgHome == <<"home", "u", ".config", "mise", "config.toml">>
CfgSystem == <<"etc", "mise", "config.toml">>
CfgOther == <<"opt", "x", "mise.toml">>

\* paths the mise of another user, an older mise and a dot-named directory hold
CfgSibling == <<"home", "u2", "mise.toml">>
CfgEtcOld == <<"etc", "mise-old", "config.toml">>
CfgDots == <<"home", "u", "proj", "..cache", "mise.toml">>

\* strings.HasPrefix on two path components: the pairs of distinct components
\* of the model in which the second starts the first
StartsWith(a, b) ==
    a = b \/ <<a, b>> \in {<<"u2", "u">>, <<"mise-old", "mise">>, <<"..cache", "..">>}

\* strings.HasPrefix(path, prefix) on the strings of two absolute paths: it
\* compares bytes, so the last component of prefix need only start the
\* component of path in its place
HasPrefix(path, prefix) ==
    LET n == Len(prefix) IN
    \/ n = 0
    \/ /\ Len(path) >= n
       /\ SubSeq(path, 1, n - 1) = SubSeq(prefix, 1, n - 1)
       /\ StartsWith(path[n], prefix[n])

\* filepath.Rel(basepath, targpath) of two absolute paths does not start
\* with "..": basepath holds targpath, whose next component does not
\* itself start with two dots
RelInside(basepath, targpath) ==
    /\ IsPrefix(basepath, targpath)
    /\ Len(targpath) > Len(basepath) => ~StartsWith(targpath[Len(basepath) + 1], "..")

\* sourcePriority on a model whose cwd is wd and whose homeDir is home;
\* sourcePath is absolute, as mise reports it
sourcePriorityAt(wd, home, sourcePath) ==
    LET configDir == Dir(sourcePath) IN
    IF RelInside(wd, configDir) THEN Len(configDir) - Len(wd)
    ELSE IF RelInside(configDir, wd) THEN priorityParentDirBase + (Len(wd) - Len(configDir))
    ELSE IF HasPrefix(sourcePath, home) THEN priorityHomeDir
    ELSE IF HasPrefix(sourcePath, <<"etc", "mise">>) THEN prioritySystemDir
    ELSE priorityUnknown

sourcePriority(sourcePath) == sourcePriorityAt(cwd, homeDir, sourcePath)

\* the comparison handleTasksLoaded and handleToolsLoaded sort with: by the
\* priority of the source, then by name
LessBySource(a, b) ==
    \/ sourcePriority(a.source) < sourcePriority(b.source)
    \/ /\ sourcePriority(a.source) = sourcePriority(b.source)
       /\ StrRank(a.name) < StrRank(b.name)

\* the comparison handleEnvVarsLoaded sorts with
LessByName(a, b) == StrRank(a.name) < StrRank(b.name)

\* slices.SortFunc on a slice of at most 12 elements is an insertion sort:
\* elements that compare equal keep the order they came in
RECURSIVE InsertBySource(_, _)
InsertBySource(x, s) ==
    IF s = <<>> THEN <<x>>
    ELSE IF ~LessBySource(Head(s), x) THEN <<x>> \o s
    ELSE <<Head(s)>> \o InsertBySource(x, Tail(s))

RECURSIVE SortBySource(_)
SortBySource(s) ==
    IF s = <<>> THEN <<>> ELSE InsertBySource(Head(s), SortBySource(Tail(s)))

RECURSIVE InsertByName(_, _)
InsertByName(x, s) ==
    IF s = <<>> THEN <<x>>
    ELSE IF ~LessByName(Head(s), x) THEN <<x>> \o s
    ELSE <<Head(s)>> \o InsertByName(x, Tail(s))

RECURSIVE SortByName(_)
SortByName(s) ==
    IF s = <<>> THEN <<>> ELSE InsertByName(Head(s), SortByName(Tail(s)))

----------------------------------------------------------------------------
(* bubbles table.Model: rows, a 0-based cursor and the focus flag *)

NewTable(focused) == [rows |-> <<>>, cursor |-> 0, focus |-> focused]

SetRows(t, r) ==
    [t EXCEPT !.rows = r,
              !.cursor = IF t.cursor > Len(r) - 1 THEN Len(r) - 1 ELSE t.cursor]

SetCursor(t, n) == [t EXCEPT !.cursor = clamp(n, 0, Len(t.rows) - 1)]

HasSelectedRow(t) == t.cursor >= 0 /\ t.cursor < Len(t.rows)
SelectedRow(t) == t.rows[t.cursor + 1]

Blur(t) == [t EXCEPT !.focus = FALSE]
Focus(t) == [t EXCEPT !.focus = TRUE]

\* table.Update: only a focused table reacts, and only to its navigation keys
\* (b and u page up, by a page no shorter than the table)
TableUpdate(t, msg) ==
    IF msg.type # "key" \/ ~t.focus THEN t
    ELSE IF msg.key \in {"up", "k"} THEN SetCursor(t, t.cursor - 1)
    ELSE IF msg.key \in {"down", "j"} THEN SetCursor(t, t.cursor + 1)
    ELSE IF msg.key \in {"b", "u"} THEN SetCursor(t, t.cursor - Len(t.rows))
    ELSE t

----------------------------------------------------------------------------
(* bubbles list.Model of the picker: items, cursor and the filtering state *)

NewList(items) == [items |-> items, index |-> 0, filtering |-> FALSE]

HasSelectedItem(l) == l.index >= 0 /\ l.index < Len(l.items)
SelectedItem(l) == l.items[l.index + 1]

SetItems(l, items) == [l EXCEPT !.items = items]

ListUpdate(l, msg) ==
    IF msg.type # "key" THEN l
    ELSE IF l.filtering THEN
        IF msg.key \in {"esc", "enter"} THEN [l EXCEPT !.filtering = FALSE] ELSE l
    ELSE IF msg.key = "/" /\ Len(l.items) > 0 THEN [l EXCEPT !.filtering = TRUE]
    ELSE IF msg.key \in {"up", "k"} THEN [l EXCEPT !.index = Max(l.index - 1, 0)]
    ELSE IF msg.key \in {"down", "j"} THEN
        [l EXCEPT !.index = Max(Min(l.index + 1, Len(l.items) - 1), 0)]
    ELSE l

----------------------------------------------------------------------------
(* bubbles textinput.Model: the text typed so far, at most one character   *)
(* (KeyPress disables typing into a full input).                           *)

\* the keys that type a character into a focused text input
Printable == {"q", "a", "u", "v", "V", "h", "e", "w", "/", "b", "j", "k", "space"}

TextInputUpdate(v, msg) ==
    IF msg.type # "key" THEN v
    ELSE IF msg.key \in Printable THEN v \o (IF msg.key = "space" THEN " " ELSE msg.key)
    ELSE IF msg.key = "backspace" THEN ""
    ELSE v

\* shlex.Split of the argument text: blank text has no token, and a typed
\* character other than the space is one token
shlexSplit(text) == IF text \in {"", " "} THEN <<>> ELSE <<text>>

----------------------------------------------------------------------------
(* sahilm/fuzzy on "name description": with a one-character pattern a      *)
(* source matches when it contains the character; matches keep the order   *)
(* of the sources (equal scores).                                          *)

Letters(name) ==
    CASE name = "build" -> {"b", "u", "i", "l", "d"}
      [] name = "test" -> {"t", "e", "s"}
      [] name = "deploy" -> {"d", "e", "p", "l", "o", "y"}
      [] OTHER -> {}

FirstLetter(name) ==
    CASE name = "build" -> "b"
      [] name = "test" -> "t"
      [] name = "deploy" -> "d"
      [] OTHER -> ""

fuzzyMatch(pattern, task) == pattern \in Letters(task.name)

----------------------------------------------------------------------------
(* The controller state *)

\* model{...} as run() constructs it; every other field has its zero value
InitModel ==
    [tasksTable |-> NewTable(TRUE),
     toolsTable |-> NewTable(FALSE),
     envVarsTable |-> NewTable(FALSE),
     tasks |-> <<>>, tools |-> <<>>, envVars |-> <<>>,
     focus |-> focusTasks,
     tasksLoading |-> TRUE, toolsLoading |-> TRUE, envVarsLoading |-> TRUE,
     err |-> Nil,
     showOutput |-> FALSE, runningTask |-> "", taskRunning |-> FALSE,
     taskErr |-> Nil, output |-> <<>>, totalOutputLines |-> 0,
     wrapOutput |-> FALSE, cancelFunc |-> 0,
     argInputActive |-> FALSE, argInputInteractive |-> FALSE,
     argInputTask |-> "", argInput |-> "",
     filterActive |-> FALSE, filterInput |-> "", filteredTasks |-> <<>>,
     pickerState |-> pickerClosed,
     toolList |-> NewList(<<>>), versionList |-> NewList(<<>>),
     configList |-> NewList(<<>>),
     selectedTool |-> "", selectedVersion |-> "", versionsLoading |-> FALSE,
     watcher |-> FALSE, configPaths |-> <<>>, lastReload |-> ZeroTime,
     logger |-> TRUE]

\* model{}: the zero value of the struct (nil logger, unfocused empty tables)
ZeroModel ==
    [InitModel EXCEPT !.tasksTable = NewTable(FALSE),
                      !.tasksLoading = FALSE, !.toolsLoading = FALSE,
                      !.envVarsLoading = FALSE, !.logger = FALSE]

\* what a handler returns: the model value, the commands (tea.Cmd) and the
\* effects performed on objects the model only points to
Res(mm) == [m |-> mm, cmds |-> <<>>, fx |-> <<>>]
ResCmd(mm, cmds) == [m |-> mm, cmds |-> cmds, fx |-> <<>>]
ResFx(mm, cmds, fx) == [m |-> mm, cmds |-> cmds, fx |-> fx]

Cmd(kind) == [kind |-> kind]

\* loader.ReloadMiseData: tasks, tools and env vars, concurrently
ReloadMiseData == <<Cmd("LoadMiseTasks"), Cmd("LoadMiseTools"), Cmd("LoadMiseEnvVars")>>

----------------------------------------------------------------------------
(* Rows of the three tables *)

TaskRows(tasks) ==
    IF tasks = <<>> THEN <<>> ELSE [i \in 1..Len(tasks) |-> <<tasks[i].name>>]

ToolRows(tools) ==
    IF tools = <<>> THEN <<>>
    ELSE [i \in 1..Len(tools) |-> <<tools[i].name, tools[i].version>>]

\* EnvVarRows showing every value
EnvVarRowsUnmasked(envVars) ==
    IF envVars = <<>> THEN <<>>
    ELSE [i \in 1..Len(envVars) |-> <<envVars[i].name, envVars[i].value>>]

maskValue(value) == IF value = "" THEN "" ELSE Mask

EnvVarRows(envVars) ==
    IF envVars = <<>> THEN <<>>
    ELSE [i \in 1..Len(envVars) |->
            <<envVars[i].name,
              IF ~envVars[i].masked THEN envVars[i].value
              ELSE maskValue(envVars[i].value)>>]

refreshEnvVarsTable(mm) ==
    [mm EXCEPT !.envVarsTable = SetRows(@, EnvVarRows(mm.envVars))]

----------------------------------------------------------------------------
(* Task filter *)

\* filterTasks listing a match on the first character a second time
filterTasksTwice(tasks, filter) ==
    IF filter = "" THEN tasks
    ELSE SelectSeq(tasks, LAMBDA t : fuzzyMatch(filter, t) /\ filter = FirstLetter(t.name))
         \o SelectSeq(tasks, LAMBDA t : fuzzyMatch(filter, t))

\* fuzzy.Find returns the matches best first: a match on the first
\* character of the source before the others, otherwise in source order
filterTasks(tasks, filter) ==
    IF filter = "" THEN tasks
    ELSE SelectSeq(tasks, LAMBDA t : fuzzyMatch(filter, t) /\ filter = FirstLetter(t.name))
         \o SelectSeq(tasks, LAMBDA t : fuzzyMatch(filter, t) /\ filter # FirstLetter(t.name))

applyTaskFilter(mm, resetCursor) ==
    LET filterValue == mm.filterInput
        filtered == IF filterValue = "" THEN mm.tasks
                    ELSE filterTasks(mm.tasks, filterValue)
        rows == TaskRows(filtered)
        t1 == SetRows(mm.tasksTable, rows)
        t2 == IF resetCursor /\ Len(rows) > 0 THEN SetCursor(t1, 0) ELSE t1
    IN [mm EXCEPT !.filteredTasks = filtered, !.tasksTable = t2]

\* clearFilter leaving the filtered rows in the table
clearFilterKeepRows(mm) ==
    [mm EXCEPT !.filterActive = FALSE, !.filterInput = "", !.filteredTasks = mm.tasks]

clearFilter(mm) ==
    LET rows == TaskRows(mm.tasks)
        t1 == SetRows(mm.tasksTable, rows)
        t2 == IF Len(rows) > 0 THEN SetCursor(t1, 0) ELSE t1
    IN [mm EXCEPT !.filterActive = FALSE, !.filterInput = "",
                  !.filteredTasks = mm.tasks, !.tasksTable = t2]

----------------------------------------------------------------------------
(* Load-completion handlers *)

handleTasksLoaded(mm, msg) ==
    IF msg.Err # Nil THEN [mm EXCEPT !.err = msg.Err, !.tasksLoading = FALSE]
    ELSE LET tasks == SortBySource(msg.Tasks)
             m1 == [mm EXCEPT !.tasks = tasks, !.tasksLoading = FALSE,
                              !.tasksTable = SetRows(@, TaskRows(tasks))]
         IN IF m1.filterActive THEN applyTaskFilter(m1, FALSE) ELSE m1

handleToolsLoaded(mm, msg) ==
    IF msg.Err # Nil THEN [mm EXCEPT !.err = msg.Err, !.toolsLoading = FALSE]
    ELSE LET tools == SortBySource(msg.Tools)
         IN [mm EXCEPT !.tools = tools, !.toolsLoading = FALSE,
                       !.toolsTable = SetRows(@, ToolRows(tools))]

handleEnvVarsLoaded(mm, msg) ==
    IF msg.Err # Nil THEN [mm EXCEPT !.err = msg.Err, !.envVarsLoading = FALSE]
    ELSE LET sorted == SortByName(msg.EnvVars)
             unmasked == {mm.envVars[i].name : i \in {j \in 1..Len(mm.envVars) : ~mm.envVars[j].masked}}
             envVars == IF sorted = <<>> THEN <<>>
                        ELSE [i \in 1..Len(sorted) |->
                                IF sorted[i].name \in unmasked
                                THEN [sorted[i] EXCEPT !.masked = FALSE]
                                ELSE sorted[i]]
         IN [mm EXCEPT !.envVars = envVars, !.envVarsLoading = FALSE,
                       !.envVarsTable = SetRows(@, EnvVarRows(envVars))]

\* the mise version only feeds the header
handleMiseVersion(mm, msg) == mm

\* handleTaskOutput putting the new line in front of the buffer
handleTaskOutputPrepend(mm, msg) ==
    LET kept == IF Len(mm.output) >= maxOutputLines
                THEN SliceFrom(mm.output, Len(mm.output) - (maxOutputLines - 1))
                ELSE mm.output
    IN [mm EXCEPT !.totalOutputLines = @ + 1, !.output = <<msg.line>> \o kept]

\* handleTaskOutput cutting a full buffer one line too late
handleTaskOutputOffByOne(mm, msg) ==
    LET kept == IF Len(mm.output) >= maxOutputLines
                THEN SliceFrom(mm.output, Len(mm.output) - maxOutputLines)
                ELSE mm.output
    IN [mm EXCEPT !.totalOutputLines = @ + 1, !.output = Append(kept, msg.line)]

handleTaskOutput(mm, msg) ==
    LET kept == IF Len(mm.output) >= maxOutputLines
                THEN SliceFrom(mm.output, Len(mm.output) - (maxOutputLines - 1))
                ELSE mm.output
    IN [mm EXCEPT !.totalOutputLines = @ + 1, !.output = Append(kept, msg.line)]

\* handleTaskDone leaving the cancellation handle in place
handleTaskDoneKeepHandle(mm, msg) ==
    [mm EXCEPT !.taskRunning = FALSE, !.taskErr = msg.err]

handleTaskDone(mm, msg) ==
    [mm EXCEPT !.taskRunning = FALSE, !.taskErr = msg.err, !.cancelFunc = 0]

\* msg.startErr: whether watcher.StartFileWatcher fails for these paths
handleConfigFilesLoaded(mm, msg) ==
    IF msg.Err # Nil THEN Res(mm)
    ELSE IF msg.startErr THEN Res([mm EXCEPT !.configPaths = msg.Paths])
    ELSE ResFx([mm EXCEPT !.configPaths = msg.Paths, !.watcher = TRUE],
               <<>>, <<"StartFileWatcher">>)

handleEditorClosed(mm, msg) == mm

handleFileChanged(mm, msg, t) ==
    IF mm.lastReload # ZeroTime /\ t - mm.lastReload < debounceInterval THEN Res(mm)
    ELSE ResCmd([mm EXCEPT !.lastReload = t], ReloadMiseData)

----------------------------------------------------------------------------
(* Environment-variable masking *)

\* showSelectedEnvVar without the break at the name: every variable from
\* the selected one on is unmasked
showSelectedEnvVarOnward(mm) ==
    IF Len(mm.envVars) = 0 THEN mm
    ELSE IF ~HasSelectedRow(mm.envVarsTable) THEN mm
    ELSE LET selectedName == SelectedRow(mm.envVarsTable)[1]
             hits == {i \in 1..Len(mm.envVars) : mm.envVars[i].name = selectedName}
             first == IF hits = {} THEN Len(mm.envVars) + 1
                      ELSE CHOOSE i \in hits : \A j \in hits : i <= j
         IN refreshEnvVarsTable(
                [mm EXCEPT !.envVars = [i \in 1..Len(mm.envVars) |->
                    IF i >= first THEN [mm.envVars[i] EXCEPT !.masked = FALSE]
                    ELSE mm.envVars[i]]])

showSelectedEnvVar(mm) ==
    IF Len(mm.envVars) = 0 THEN mm
    ELSE IF ~HasSelectedRow(mm.envVarsTable) THEN mm
    ELSE LET selectedName == SelectedRow(mm.envVarsTable)[1]
             hits == {i \in 1..Len(mm.envVars) : mm.envVars[i].name = selectedName}
             first == IF hits = {} THEN 0 ELSE CHOOSE i \in hits : \A j \in hits : i <= j
         IN refreshEnvVarsTable(
                [mm EXCEPT !.envVars = [i \in 1..Len(mm.envVars) |->
                    IF i = first THEN [mm.envVars[i] EXCEPT !.masked = FALSE]
                    ELSE mm.envVars[i]]])

showAllEnvVars(mm) ==
    refreshEnvVarsTable(
        [mm EXCEPT !.envVars = IF mm.envVars = <<>> THEN <<>>
            ELSE [i \in 1..Len(mm.envVars) |-> [mm.envVars[i] EXCEPT !.masked = FALSE]]])

hideAllEnvVars(mm) ==
    refreshEnvVarsTable(
        [mm EXCEPT !.envVars = IF mm.envVars = <<>> THEN <<>>
            ELSE [i \in 1..Len(mm.envVars) |-> [mm.envVars[i] EXCEPT !.masked = TRUE]]])

----------------------------------------------------------------------------
(* Task execution *)

\* cmdArgs preceded by the case where every command line has the separator
cmdArgsAlwaysSeparated(taskName, args) == <<"mise", "run", taskName, "--">> \o args

\* the command line of a run, piped (runTask) or interactive
\* (interactiveTaskCommand.Run): the arguments follow a "--" when there are any
cmdArgs(taskName, args) ==
    <<"mise", "run", taskName>> \o (IF Len(args) > 0 THEN <<"--">> \o args ELSE <<>>)

\* env.run: the identity of the context startTask creates
startTask(mm, taskName, args, env) ==
    ResCmd([mm EXCEPT !.showOutput = TRUE, !.runningTask = taskName,
                      !.taskRunning = TRUE, !.taskErr = Nil, !.output = <<>>,
                      !.totalOutputLines = 0, !.cancelFunc = env.run],
           <<[kind |-> "runTask", run |-> env.run, task |-> taskName, args |-> args,
              argv |-> cmdArgs(taskName, args)]>>)

runInteractiveTask(taskName, args) ==
    [kind |-> "runInteractiveTask", task |-> taskName, args |-> args,
     argv |-> cmdArgs(taskName, args)]

\* the result of a key handler that returns (model, cmd, handled)
Handled(r, handled) == [m |-> r.m, cmds |-> r.cmds, fx |-> r.fx, handled |-> handled]

handleTaskEnter(mm, env) ==
    IF HasSelectedRow(mm.tasksTable)
    THEN Handled(startTask(mm, SelectedRow(mm.tasksTable)[1], <<>>, env), TRUE)
    ELSE Handled(Res(ZeroModel), FALSE)

handleTaskAltEnter(mm) ==
    IF HasSelectedRow(mm.tasksTable)
    THEN Handled(Res([mm EXCEPT !.argInputActive = TRUE,
                                !.argInputTask = SelectedRow(mm.tasksTable)[1],
                                !.argInput = ""]), TRUE)
    ELSE Handled(Res(ZeroModel), FALSE)

handleTaskCtrlEnter(mm) ==
    IF HasSelectedRow(mm.tasksTable)
    THEN Handled(ResCmd(mm, <<runInteractiveTask(SelectedRow(mm.tasksTable)[1], <<>>)>>), TRUE)
    ELSE Handled(Res(ZeroModel), FALSE)

handleTaskCtrlAltEnter(mm) ==
    IF HasSelectedRow(mm.tasksTable)
    THEN Handled(Res([mm EXCEPT !.argInputActive = TRUE, !.argInputInteractive = TRUE,
                                !.argInputTask = SelectedRow(mm.tasksTable)[1],
                                !.argInput = ""]), TRUE)
    ELSE Handled(Res(ZeroModel), FALSE)

handleArgInput(mm, msg, env) ==
    IF msg.type = "key" /\ msg.key = "esc" THEN
        Res([mm EXCEPT !.argInputActive = FALSE, !.argInputInteractive = FALSE,
                       !.argInputTask = "", !.argInput = ""])
    ELSE IF msg.type = "key" /\ msg.key = "enter" THEN
        LET args == mm.argInput
            taskName == mm.argInputTask
            isInteractive == mm.argInputInteractive
            m1 == [mm EXCEPT !.argInputActive = FALSE, !.argInputInteractive = FALSE,
                             !.argInputTask = "", !.argInput = ""]
            argSlice == IF args # "" THEN shlexSplit(args) ELSE <<>>
        IN IF isInteractive THEN ResCmd(m1, <<runInteractiveTask(taskName, argSlice)>>)
           ELSE startTask(m1, taskName, argSlice, env)
    ELSE Res([mm EXCEPT !.argInput = TextInputUpdate(@, msg)])

handleFilterInput(mm, msg, env) ==
    LET cursor == mm.tasksTable.cursor
        onRow == Len(mm.filteredTasks) > 0 /\ cursor >= 0 /\ cursor < Len(mm.filteredTasks)
    IN
    IF msg.type # "key" THEN Res(applyTaskFilter(mm, FALSE))
    ELSE IF msg.key = "esc" THEN Res(clearFilter(mm))
    ELSE IF msg.key = "enter" THEN
        IF onRow
        THEN startTask([mm EXCEPT !.filterActive = FALSE],
                       mm.filteredTasks[cursor + 1].name, <<>>, env)
        ELSE Res(mm)
    ELSE IF msg.key = "alt+enter" THEN
        IF onRow
        THEN Res([mm EXCEPT !.filterActive = FALSE, !.argInputActive = TRUE,
                            !.argInputTask = mm.filteredTasks[cursor + 1].name,
                            !.argInput = ""])
        ELSE Res(mm)
    ELSE IF msg.key = "ctrl+enter" THEN
        IF onRow
        THEN Res([mm EXCEPT !.filterActive = FALSE, !.argInputActive = TRUE,
                            !.argInputInteractive = TRUE,
                            !.argInputTask = mm.filteredTasks[cursor + 1].name,
                            !.argInput = ""])
        ELSE Res(mm)
    ELSE IF msg.key \in {"up", "down", "j", "k"} THEN
        Res([mm EXCEPT !.tasksTable = TableUpdate(@, msg)])
    ELSE Res(applyTaskFilter([mm EXCEPT !.filterInput = TextInputUpdate(@, msg)], TRUE))

----------------------------------------------------------------------------
(* Keys of the main view *)

Quit == Cmd("Quit")

getSelectedSourcePath(mm) ==
    IF mm.focus = focusTasks THEN
        LET idx == mm.tasksTable.cursor IN
        IF idx >= 0 /\ idx < Len(mm.tasks) THEN mm.tasks[idx + 1].source ELSE <<>>
    ELSE IF mm.focus = focusTools THEN
        LET idx == mm.toolsTable.cursor IN
        IF idx >= 0 /\ idx < Len(mm.tools) THEN mm.tools[idx + 1].source ELSE <<>>
    ELSE <<>>

editSourceFile(mm) ==
    LET source == getSelectedSourcePath(mm) IN
    IF source = <<>> THEN Handled(Res(mm), TRUE)
    ELSE Handled(ResCmd(mm, <<[kind |-> "openEditor", path |-> source]>>), TRUE)

unuseTool(mm) ==
    IF ~HasSelectedRow(mm.toolsTable) THEN Handled(Res(mm), FALSE)
    ELSE LET row == SelectedRow(mm.toolsTable) IN
         IF Len(row) < minToolRowFields THEN Handled(Res(mm), FALSE)
         ELSE Handled(ResCmd(mm, <<[kind |-> "RemoveTool", tool |-> row[1],
                                    version |-> row[2]]>>), TRUE)

openToolPicker(mm) ==
    Handled(ResCmd([mm EXCEPT !.pickerState = pickerSelectTool,
                              !.toolList = NewList(<<>>)],
                   <<Cmd("LoadMiseRegistry")>>), TRUE)

closeToolPicker(mm) ==
    [mm EXCEPT !.pickerState = pickerClosed, !.selectedTool = "",
               !.selectedVersion = "", !.versionsLoading = FALSE]

\* the tab handler moving the focus without blurring the tables
tabKeyNoBlur(mm) ==
    LET f == (mm.focus + 1) % focusSectionCount IN
    [mm EXCEPT
        !.focus = f,
        !.tasksTable = IF f = focusTasks THEN Focus(@) ELSE @,
        !.toolsTable = IF f = focusTools THEN Focus(@) ELSE @,
        !.envVarsTable = IF f = focusEnvVars THEN Focus(@) ELSE @]

\* the "tab" entry of globalKeys: blur all three tables, advance the focus,
\* focus the table of the new section
tabKey(mm) ==
    LET f == (mm.focus + 1) % focusSectionCount IN
    [mm EXCEPT
        !.focus = f,
        !.tasksTable = IF f = focusTasks THEN Focus(Blur(@)) ELSE Blur(@),
        !.toolsTable = IF f = focusTools THEN Focus(Blur(@)) ELSE Blur(@),
        !.envVarsTable = IF f = focusEnvVars THEN Focus(Blur(@)) ELSE Blur(@)]

handleMainKeys(mm, msg, env) ==
    LET key == msg.key IN
    IF key \in {"q", "ctrl+c", "esc"} THEN
        Handled(ResFx(mm, <<Quit>>, <<"watcher.Close">>), TRUE)
    ELSE IF key = "tab" THEN Handled(Res(tabKey(mm)), TRUE)
    ELSE IF key = "e" THEN editSourceFile(mm)
    ELSE IF mm.focus = focusTasks /\ key = "enter" THEN
        IF Len(mm.tasks) = 0 THEN Handled(Res(mm), TRUE) ELSE handleTaskEnter(mm, env)
    ELSE IF mm.focus = focusTasks /\ key = "alt+enter" THEN
        IF Len(mm.tasks) = 0 THEN Handled(Res(mm), TRUE) ELSE handleTaskAltEnter(mm)
    ELSE IF mm.focus = focusTasks /\ key = "ctrl+enter" THEN
        IF Len(mm.tasks) = 0 THEN Handled(Res(mm), TRUE) ELSE handleTaskCtrlEnter(mm)
    ELSE IF mm.focus = focusTasks /\ key = "ctrl+shift+enter" THEN
        IF Len(mm.tasks) = 0 THEN Handled(Res(mm), TRUE) ELSE handleTaskCtrlAltEnter(mm)
    ELSE IF mm.focus = focusTasks /\ key = "/" THEN
        Handled(Res([mm EXCEPT !.filterActive = TRUE, !.filterInput = "",
                               !.filteredTasks = mm.tasks]), TRUE)
    ELSE IF mm.focus = focusTools /\ key = "a" THEN openToolPicker(mm)
    ELSE IF mm.focus = focusTools /\ key = "u" THEN unuseTool(mm)
    ELSE IF mm.focus = focusEnvVars /\ key = "v" THEN Handled(Res(showSelectedEnvVar(mm)), TRUE)
    ELSE IF mm.focus = focusEnvVars /\ key = "V" THEN Handled(Res(showAllEnvVars(mm)), TRUE)
    ELSE IF mm.focus = focusEnvVars /\ key = "h" THEN Handled(Res(hideAllEnvVars(mm)), TRUE)
    ELSE Handled(Res(mm), FALSE)

----------------------------------------------------------------------------
(* Keys of the output view *)

\* handleOutputKeys closing the view without clearing the task error
handleOutputKeysKeepErr(mm, msg) ==
    LET key == msg.key IN
    IF key = "w" THEN Res([mm EXCEPT !.wrapOutput = ~@])
    ELSE IF key \in {"q", "esc"} THEN
        IF ~mm.taskRunning THEN
            LET m1 == [mm EXCEPT !.showOutput = FALSE, !.output = <<>>,
                                 !.runningTask = "", !.wrapOutput = FALSE]
            IN IF Len(m1.filteredTasks) > 0 /\ Len(m1.filteredTasks) < Len(m1.tasks)
               THEN Res(clearFilter(m1)) ELSE Res(m1)
        ELSE Res(mm)
    ELSE IF key = "ctrl+c" THEN
        IF mm.taskRunning /\ mm.cancelFunc # 0
        THEN ResFx(mm, <<>>, <<"cancelFunc">>)
        ELSE IF ~mm.taskRunning THEN ResFx(mm, <<Quit>>, <<"watcher.Close">>)
        ELSE Res(mm)
    ELSE Res(mm)

\* handleOutputKeys closing the view of a task that is still running
handleOutputKeysCloseRunning(mm, msg) ==
    LET key == msg.key IN
    IF key = "w" THEN Res([mm EXCEPT !.wrapOutput = ~@])
    ELSE IF key \in {"q", "esc"} THEN
        LET m1 == [mm EXCEPT !.showOutput = FALSE, !.output = <<>>,
                             !.runningTask = "", !.taskErr = Nil,
                             !.wrapOutput = FALSE]
        IN IF Len(m1.filteredTasks) > 0 /\ Len(m1.filteredTasks) < Len(m1.tasks)
           THEN Res(clearFilter(m1)) ELSE Res(m1)
    ELSE IF key = "ctrl+c" THEN
        IF mm.taskRunning /\ mm.cancelFunc # 0
        THEN ResFx(mm, <<>>, <<"cancelFunc">>)
        ELSE IF ~mm.taskRunning THEN ResFx(mm, <<Quit>>, <<"watcher.Close">>)
        ELSE Res(mm)
    ELSE Res(mm)

handleOutputKeys(mm, msg) ==
    LET key == msg.key IN
    IF key = "w" THEN Res([mm EXCEPT !.wrapOutput = ~@])
    ELSE IF key \in {"q", "esc"} THEN
        IF ~mm.taskRunning THEN
            LET m1 == [mm EXCEPT !.showOutput = FALSE, !.output = <<>>,
                                 !.runningTask = "", !.taskErr = Nil,
                                 !.wrapOutput = FALSE]
            IN IF Len(m1.filteredTasks) > 0 /\ Len(m1.filteredTasks) < Len(m1.tasks)
               THEN Res(clearFilter(m1)) ELSE Res(m1)
        ELSE Res(mm)
    ELSE IF key = "ctrl+c" THEN
        IF mm.taskRunning /\ mm.cancelFunc # 0
        THEN ResFx(mm, <<>>, <<"cancelFunc">>)
        ELSE IF ~mm.taskRunning THEN ResFx(mm, <<Quit>>, <<"watcher.Close">>)
        ELSE Res(mm)
    ELSE Res(mm)

\* updateFocusedComponent: the viewport or the focused table gets the message
updateFocusedComponent(mm, msg) ==
    IF mm.showOutput THEN Res(mm)
    ELSE LET canUpdateTables == mm.pickerState = pickerClosed /\ ~mm.tasksLoading
                                /\ ~mm.toolsLoading /\ ~mm.envVarsLoading /\ mm.err = Nil
         IN IF ~canUpdateTables THEN Res(mm)
            ELSE IF mm.focus = focusTasks
                THEN Res([mm EXCEPT !.tasksTable = TableUpdate(@, msg)])
            ELSE IF mm.focus = focusTools
                THEN Res([mm EXCEPT !.toolsTable = TableUpdate(@, msg)])
            ELSE IF mm.focus = focusEnvVars
                THEN Res([mm EXCEPT !.envVarsTable = TableUpdate(@, msg)])
            ELSE Res(mm)

----------------------------------------------------------------------------
(* Tool picker *)

handleRegistryLoaded(mm, msg) ==
    IF msg.Err # Nil THEN [mm EXCEPT !.pickerState = pickerClosed]
    ELSE [mm EXCEPT !.toolList = SetItems(@, msg.Tools)]

handleVersionsLoaded(mm, msg) ==
    IF msg.Err # Nil
    THEN [mm EXCEPT !.versionsLoading = FALSE, !.pickerState = pickerSelectTool]
    ELSE [mm EXCEPT !.versionsLoading = FALSE, !.versionList = NewList(msg.Versions),
                    !.pickerState = pickerSelectVersion]

\* handleToolInstalled with a failure stepping back to the config list
handleToolInstalledStepBack(mm, msg) ==
    IF msg.Err # Nil THEN Res([mm EXCEPT !.pickerState = pickerSelectConfig])
    ELSE ResCmd([mm EXCEPT !.pickerState = pickerClosed, !.selectedTool = ""],
                <<Cmd("LoadMiseTools")>>)

handleToolInstalled(mm, msg) ==
    IF msg.Err # Nil THEN Res([mm EXCEPT !.pickerState = pickerClosed])
    ELSE ResCmd([mm EXCEPT !.pickerState = pickerClosed, !.selectedTool = ""],
                <<Cmd("LoadMiseTools")>>)

handleToolRemoved(mm, msg) ==
    IF msg.Err # Nil THEN Res(mm) ELSE ResCmd(mm, <<Cmd("LoadMiseTools")>>)

handleToolListKeys(mm, msg) ==
    IF mm.toolList.filtering THEN Res([mm EXCEPT !.toolList = ListUpdate(@, msg)])
    ELSE IF msg.key \in {"esc", "q"} THEN Res(closeToolPicker(mm))
    ELSE IF msg.key = "enter" THEN
        IF HasSelectedItem(mm.toolList)
        THEN LET tool == SelectedItem(mm.toolList) IN
             ResCmd([mm EXCEPT !.selectedTool = tool,
                               !.pickerState = pickerLoadingVersions,
                               !.versionsLoading = TRUE],
                    <<[kind |-> "LoadToolVersions", tool |-> tool]>>)
        ELSE Res(mm)
    ELSE Res([mm EXCEPT !.toolList = ListUpdate(@, msg)])

openConfigPicker(mm) ==
    [mm EXCEPT !.pickerState = pickerSelectConfig, !.configList = NewList(mm.configPaths)]

handleVersionListKeys(mm, msg) ==
    IF mm.versionList.filtering THEN Res([mm EXCEPT !.versionList = ListUpdate(@, msg)])
    ELSE IF msg.key = "q" THEN Res(closeToolPicker(mm))
    ELSE IF msg.key = "esc" THEN Res([mm EXCEPT !.pickerState = pickerSelectTool])
    ELSE IF msg.key = "enter" THEN
        IF HasSelectedItem(mm.versionList)
        THEN Res(openConfigPicker(
                 [mm EXCEPT !.selectedVersion = SelectedItem(mm.versionList)]))
        ELSE Res(mm)
    ELSE Res([mm EXCEPT !.versionList = ListUpdate(@, msg)])

handleConfigListKeys(mm, msg) ==
    IF mm.configList.filtering THEN Res([mm EXCEPT !.configList = ListUpdate(@, msg)])
    ELSE IF msg.key = "q" THEN Res(closeToolPicker(mm))
    ELSE IF msg.key = "esc" THEN Res([mm EXCEPT !.pickerState = pickerSelectVersion])
    ELSE IF msg.key = "enter" THEN
        IF HasSelectedItem(mm.configList)
        THEN ResCmd([mm EXCEPT !.pickerState = pickerInstalling],
                    <<[kind |-> "InstallTool", tool |-> mm.selectedTool,
                       version |-> mm.selectedVersion,
                       config |-> SelectedItem(mm.configList)]>>)
        ELSE Res(mm)
    ELSE Res([mm EXCEPT !.configList = ListUpdate(@, msg)])

handlePickerKeys(mm, msg) ==
    IF mm.pickerState = pickerSelectTool THEN handleToolListKeys(mm, msg)
    ELSE IF mm.pickerState = pickerSelectVersion THEN handleVersionListKeys(mm, msg)
    ELSE IF mm.pickerState = pickerSelectConfig THEN handleConfigListKeys(mm, msg)
    ELSE IF mm.pickerState \in {pickerLoadingVersions, pickerInstalling}
            /\ msg.key \in {"esc", "q"} THEN Res(closeToolPicker(mm))
    ELSE Res(mm)

handlePickerUpdate(mm, msg) ==
    IF msg.type = "key" THEN handlePickerKeys(mm, msg)
    ELSE IF msg.type = "RegistryLoadedMsg" THEN Res(handleRegistryLoaded(mm, msg))
    ELSE IF msg.type = "VersionsLoadedMsg" THEN Res(handleVersionsLoaded(mm, msg))
    ELSE IF msg.type = "ToolInstalledMsg" THEN handleToolInstalled(mm, msg)
    ELSE IF mm.pickerState = pickerSelectTool
        THEN Res([mm EXCEPT !.toolList = ListUpdate(@, msg)])
    ELSE IF mm.pickerState = pickerSelectVersion
        THEN Res([mm EXCEPT !.versionList = ListUpdate(@, msg)])
    ELSE IF mm.pickerState = pickerSelectConfig
        THEN Res([mm EXCEPT !.configList = ListUpdate(@, msg)])
    ELSE Res(mm)

----------------------------------------------------------------------------
(* Update: the dispatcher *)

\* Update's key case once handleMainKeys has returned r: a key it did not
\* handle falls through to the focused component, with the model it returned
afterMainKeys(r, msg) ==
    IF r.handled THEN ResFx(r.m, r.cmds, r.fx)
    ELSE updateFocusedComponent(r.m, msg)

\* env.now: the clock time.Now reads; env.run: the next task context
Dispatch(mm, msg, env) ==
    IF mm.pickerState # pickerClosed THEN handlePickerUpdate(mm, msg)
    ELSE IF mm.filterActive THEN handleFilterInput(mm, msg, env)
    ELSE IF mm.argInputActive THEN handleArgInput(mm, msg, env)
    ELSE IF msg.type = "key" THEN
        IF mm.showOutput THEN handleOutputKeys(mm, msg)
        ELSE afterMainKeys(handleMainKeys(mm, msg, env), msg)
    ELSE IF msg.type = "taskOutputMsg" THEN Res(handleTaskOutput(mm, msg))
    ELSE IF msg.type = "taskDoneMsg" THEN Res(handleTaskDone(mm, msg))
    ELSE IF msg.type = "TasksLoadedMsg" THEN Res(handleTasksLoaded(mm, msg))
    ELSE IF msg.type = "ToolsLoadedMsg" THEN Res(handleToolsLoaded(mm, msg))
    ELSE IF msg.type = "EnvVarsLoadedMsg" THEN Res(handleEnvVarsLoaded(mm, msg))
    ELSE IF msg.type = "MiseVersionMsg" THEN Res(handleMiseVersion(mm, msg))
    ELSE IF msg.type = "ConfigFilesLoadedMsg" THEN handleConfigFilesLoaded(mm, msg)
    ELSE IF msg.type = "RegistryLoadedMsg" THEN Res(handleRegistryLoaded(mm, msg))
    ELSE IF msg.type = "VersionsLoadedMsg" THEN Res(handleVersionsLoaded(mm, msg))
    ELSE IF msg.type = "ToolInstalledMsg" THEN handleToolInstalled(mm, msg)
    ELSE IF msg.type = "ToolRemovedMsg" THEN handleToolRemoved(mm, msg)
    ELSE IF msg.type = "FileChangedMsg" THEN handleFileChanged(mm, msg, env.now)
    ELSE IF msg.type = "editorClosedMsg" THEN Res(handleEditorClosed(mm, msg))
    ELSE updateFocusedComponent(mm, msg)

\* The handlers log through m.logger; with the nil logger of model{} the
\* first logging call dereferences nil.  In a model{} value no overlay is
\* active, and only the output and unrouted messages are handled without
\* logging.
Panics(mm, msg) ==
    ~mm.logger /\ msg.type \notin {"taskOutputMsg", "interactiveTaskClosedMsg"}

Returned(r) == [m |-> r.m, cmds |-> r.cmds, fx |-> r.fx, panic |-> FALSE]

Update(mm, msg, env) ==
    IF Panics(mm, msg)
    THEN [m |-> mm, cmds |-> <<>>, fx |-> <<>>, panic |-> TRUE]
    ELSE Returned(Dispatch(mm, msg, env))

----------------------------------------------------------------------------
(* What the environment can answer *)

Task(name, source) == [name |-> name, source |-> source]
Tool(name, version, source) == [name |-> name, version |-> version, source |-> source]
\* loader.LoadMiseEnvVars delivers every variable masked
EnvVar(name, value) == [name |-> name, value |-> value, masked |-> TRUE]

\* The answers of mise: the collections a load may deliver, and the commands
\* that may fail
Data ==
    [tasks |-> {<<Task("test", CfgCwd), Task("build", CfgCwd)>>},
     tools |-> {<<Tool("node", "20", CfgCwd)>>},
     envVars |-> {<<EnvVar("SECRET", "s1")>>},
     configs |-> {<<CfgCwd>>},
     registry |-> {<<"node">>},
     versions |-> {<<"20">>},
     fail |-> {"LoadMiseRegistry", "LoadToolVersions", "InstallTool", "RemoveTool"}]

ErrOf(kind) == kind \o " failed"
Errs(c, D) == IF c.kind \in D.fail THEN {ErrOf(c.kind)} ELSE {}

\* the one message a command completes with
Outcomes(c, D) ==
    CASE c.kind = "LoadMiseTasks" ->
            {[type |-> "TasksLoadedMsg", Tasks |-> l, Err |-> Nil] : l \in D.tasks}
            \cup {[type |-> "TasksLoadedMsg", Tasks |-> <<>>, Err |-> e] : e \in Errs(c, D)}
      [] c.kind = "LoadMiseTools" ->
            {[type |-> "ToolsLoadedMsg", Tools |-> l, Err |-> Nil] : l \in D.tools}
            \cup {[type |-> "ToolsLoadedMsg", Tools |-> <<>>, Err |-> e] : e \in Errs(c, D)}
      [] c.kind = "LoadMiseEnvVars" ->
            {[type |-> "EnvVarsLoadedMsg", EnvVars |-> l, Err |-> Nil] : l \in D.envVars}
            \cup {[type |-> "EnvVarsLoadedMsg", EnvVars |-> <<>>, Err |-> e] : e \in Errs(c, D)}
      [] c.kind = "LoadMiseVersion" ->
            {[type |-> "MiseVersionMsg", Err |-> e] : e \in {Nil} \cup Errs(c, D)}
      [] c.kind = "LoadMiseConfigFiles" ->
            {[type |-> "ConfigFilesLoadedMsg", Paths |-> l, Err |-> Nil, startErr |-> b] :
                l \in D.configs, b \in {FALSE} \cup {"StartFileWatcher" \in D.fail}}
            \cup {[type |-> "ConfigFilesLoadedMsg", Paths |-> <<>>, Err |-> e,
                   startErr |-> FALSE] : e \in Errs(c, D)}
      [] c.kind = "LoadMiseRegistry" ->
            {[type |-> "RegistryLoadedMsg", Tools |-> l, Err |-> Nil] : l \in D.registry}
            \cup {[type |-> "RegistryLoadedMsg", Tools |-> <<>>, Err |-> e] : e \in Errs(c, D)}
      [] c.kind = "LoadToolVersions" ->
            {[type |-> "VersionsLoadedMsg", Tool |-> c.tool, Versions |-> l, Err |-> Nil] :
                l \in D.versions}
            \cup {[type |-> "VersionsLoadedMsg", Tool |-> c.tool, Versions |-> <<>>,
                   Err |-> e] : e \in Errs(c, D)}
      [] c.kind = "InstallTool" ->
            {[type |-> "ToolInstalledMsg", Tool |-> c.tool, Version |-> c.version, Err |-> e] :
                e \in {Nil} \cup Errs(c, D)}
      [] c.kind = "RemoveTool" ->
            {[type |-> "ToolRemovedMsg", Tool |-> c.tool, Version |-> c.version, Err |-> e] :
                e \in {Nil} \cup Errs(c, D)}
      [] c.kind = "openEditor" ->
            {[type |-> "editorClosedMsg", err |-> e] : e \in {Nil} \cup Errs(c, D)}
      [] c.kind = "runInteractiveTask" ->
            {[type |-> "interactiveTaskClosedMsg", err |-> e] : e \in {Nil} \cup Errs(c, D)}
      [] OTHER -> {}

----------------------------------------------------------------------------
(* The message loop *)

Range(s) == {s[i] : i \in DOMAIN s}

\* tea.Exec and tea.ExecProcess hand the terminal to a child and block the loop
IsExec(c) == c.kind \in {"openEditor", "runInteractiveTask"}
ExecRunning == \E c \in BagToSet(pending) : IsExec(c)

\* typing into a text input that already holds its one character
TextFull(k) ==
    /\ k \in Printable
    /\ m.pickerState = pickerClosed
    /\ \/ m.filterActive /\ k \notin {"j", "k"} /\ m.filterInput # ""
       \/ ~m.filterActive /\ m.argInputActive /\ m.argInput # ""

\* the two pipes of a task process
Streams == {"stdout", "stderr"}
NoLines == [stdout |-> 0, stderr |-> 0]

\* A piped run: the process, its two readers and the goroutine in cmd.Wait.
\* sent counts, per stream, the lines a reader has forwarded; killed records
\* that the context was cancelled; exit is "" while the process runs and
\* then how it ended; done records that cmd.Wait has returned, which closes
\* the read ends of the pipes; cap is then, per stream, the number of lines
\* the reader had taken out of its pipe by that time.
NewProc(c) ==
    [run |-> c.run, task |-> c.task, args |-> c.args, sent |-> NoLines,
     killed |-> FALSE, exit |-> "", done |-> FALSE, cap |-> NoLines]

\* Update hands msg to the switch over the message types, and not to the
\* picker, the filter input or the argument input
Switched(mm) ==
    mm.pickerState = pickerClosed /\ ~mm.filterActive /\ ~mm.argInputActive

\* the lines handleTaskOutput was given since the last startTask, in the
\* order of arrival (history, for the claims)
NextHist(r, msg) ==
    IF \E c \in Range(r.cmds) : c.kind = "runTask" THEN <<>>
    ELSE IF msg.type = "taskOutputMsg" /\ Switched(m) THEN Append(hist, msg.line)
    ELSE hist

Unmasked(envVars) == {envVars[i].name : i \in {j \in DOMAIN envVars : ~envVars[j].masked}}

\* the names the user has unmasked with v or V, until h hides them all
\* (history, for the claims)
NextShown(r, msg) ==
    IF msg.type = "key" /\ msg.key \in {"v", "V"} THEN shown \cup Unmasked(r.m.envVars)
    ELSE IF msg.type = "key" /\ msg.key = "h" /\ Switched(m) /\ ~m.showOutput
            /\ m.focus = focusEnvVars
         THEN {}
    ELSE shown

Started(r) == {c \in Range(r.cmds) : c.kind = "runTask"}
Issued(r) == {c \in Range(r.cmds) : c.kind # "runTask"}

\* The runtime takes Update's result r for msg: the model replaces the old
\* one and the commands start.  pend and live are the commands and runs
\* still out once the source of msg is accounted for.
Commit(r, msg, pend, live) ==
    /\ \A c \in Issued(r) : CopiesIn(c, pend (+) SetToBag(Issued(r))) <= MaxPending
    /\ Started(r) # {} => nruns < input.runs
    /\ status' = IF r.panic THEN "panic" ELSE "running"
    /\ m' = r.m
    /\ pending' = pend (+) SetToBag(Issued(r))
    /\ nruns' = nruns + Cardinality(Started(r))
    /\ procs' = {IF "cancelFunc" \in Range(r.fx) /\ p.run = m.cancelFunc
                 THEN [p EXCEPT !.killed = TRUE] ELSE p : p \in live}
                \cup {NewProc(c) : c \in Started(r)}
    /\ watcherOpen' = IF "StartFileWatcher" \in Range(r.fx) THEN TRUE
                      ELSE IF "watcher.Close" \in Range(r.fx) /\ m.watcher THEN FALSE
                      ELSE watcherOpen
    /\ hist' = NextHist(r, msg)
    /\ shown' = NextShown(r, msg)
    /\ dones' = IF msg.type = "taskDoneMsg" THEN dones + 1 ELSE dones
    /\ last' = IF msg.type = "key" /\ r.m = m /\ r.cmds = <<>> /\ r.fx = <<>>
               THEN last
               ELSE [msg |-> msg, cmds |-> r.cmds, fx |-> r.fx, at |-> now]
    /\ now' = now
    /\ UNCHANGED <<input, ret>>

\* One pass of the loop: Update handles msg.
Handle(msg, pend, live) ==
    /\ status = "running"
    /\ ExecRunning => msg.type \in {"editorClosedMsg", "interactiveTaskClosedMsg"}
    /\ Commit(Update(m, msg, [now |-> now, run |-> nruns + 1]), msg, pend, live)

\* A pass of the loop with no tea.Quit out: after the quit command the
\* QuitMsg is taken next, except for a completion that overtakes it
\* (CompleteBeforeQuit)
Deliver(msg, pend, live) ==
    /\ ~BagIn(Quit, pending)
    /\ Handle(msg, pend, live)

KeyPress(k) ==
    /\ ~TextFull(k)
    /\ Deliver([type |-> "key", key |-> k], pending, procs)

Complete(c, msg) ==
    /\ c.kind # "Quit"
    /\ Deliver(msg, pending (-) SetToBag({c}), procs)

\* the message of a command that completes after tea.Quit was issued reaches
\* the loop before the QuitMsg does: both are sent from their own goroutines
CompleteBeforeQuit(c, msg) ==
    /\ BagIn(Quit, pending)
    /\ c.kind # "Quit"
    /\ Handle(msg, pending (-) SetToBag({c}), procs)

\* tea.Quit: the loop ends when its QuitMsg comes round
QuitLoop ==
    /\ status = "running"
    /\ BagIn(Quit, pending)
    /\ status' = "quit"
    /\ UNCHANGED <<m, pending, procs, nruns, watcherOpen, now, hist, shown, dones, last, input, ret>>

\* a run whose readers and waiter have nothing left to send is forgotten
Reap(ps) == {p \in ps : ~(p.done /\ p.sent = p.cap)}

\* A reader goroutine of runTask forwards the next line of its stream.  Until
\* cmd.Wait returns the reader gets every line the process writes (lines, per
\* stream); afterwards only the lines it had already taken out of the pipe,
\* and its Send may come through after the taskDoneMsg.  No reader is started
\* when the pipes or the start fail.
ProcOutput(p, s, lines) ==
    /\ p.exit # "startfail"
    /\ p.sent[s] < (IF p.done THEN p.cap[s] ELSE lines[s])
    /\ Deliver([type |-> "taskOutputMsg", line |-> <<p.run, s, p.sent[s] + 1>>], pending,
               Reap((procs \ {p}) \cup {[p EXCEPT !.sent[s] = @ + 1]}))

\* how a process can end: a cancelled one is killed; one that has produced
\* no line yet may never have started (StdoutPipe, StderrPipe or Start fails)
Exits(p) ==
    IF p.killed THEN {"killed"}
    ELSE {"success", "failure"} \cup (IF p.sent = NoLines THEN {"startfail"} ELSE {})

\* the process ends (or fails to start)
ProcExit(p, e) ==
    /\ status = "running"
    /\ p.exit = ""
    /\ e \in Exits(p)
    /\ procs' = (procs \ {p}) \cup {[p EXCEPT !.exit = e]}
    /\ UNCHANGED <<m, pending, nruns, watcherOpen, now, status, hist, shown, dones, last, input, ret>>

\* runTask dropping the error of a failed pipe or start
WaitErrsDropStart(p) ==
    CASE p.exit = "success" -> IF p.killed THEN {Nil, "context canceled"} ELSE {Nil}
      [] p.exit = "failure" -> {"exit status 1"}
      [] p.exit = "killed" -> {"signal: killed"}
      [] p.exit = "startfail" -> {Nil}
      [] OTHER -> {}

\* the error runTask puts into its taskDoneMsg: what cmd.Wait returns, or
\* the wrapped error of the failed pipe or start.  Where the context was
\* cancelled after the process had ended, and before cmd.Wait reaped it,
\* exec reports the cancellation unless the process itself failed.
WaitErrs(p) ==
    CASE p.exit = "success" -> IF p.killed THEN {Nil, "context canceled"} ELSE {Nil}
      [] p.exit = "failure" -> {"exit status 1"}
      [] p.exit = "killed" -> {"signal: killed"}
      [] p.exit = "startfail" -> {"failed to start task"}
      [] OTHER -> {}

\* the lines the readers hold when cmd.Wait closes the pipes
Caps(p, lines) ==
    IF p.exit = "startfail" THEN {NoLines}
    ELSE {[stdout |-> o, stderr |-> e] : o \in p.sent.stdout..lines.stdout,
                                         e \in p.sent.stderr..lines.stderr}

\* cmd.Wait returns, closing the pipes, and runTask's command yields its
\* taskDoneMsg
ProcDone(p, err, cap, lines) ==
    /\ p.exit # ""
    /\ ~p.done
    /\ err \in WaitErrs(p)
    /\ cap \in Caps(p, lines)
    /\ Deliver([type |-> "taskDoneMsg", err |-> err], pending,
               Reap((procs \ {p}) \cup {[p EXCEPT !.done = TRUE, !.cap = cap]}))

\* watchLoop forwards a write to a watched config file
FileEvent(path) ==
    /\ watcherOpen
    /\ Deliver([type |-> "FileChangedMsg", Path |-> path], pending, procs)

Tick ==
    /\ status = "running"
    /\ now < MaxTicks * TickStep
    /\ now' = now + TickStep
    /\ UNCHANGED <<m, pending, procs, nruns, watcherOpen, status, hist, shown, dones, last, input, ret>>

\* every error a taskDoneMsg can carry
ExitErrs == {Nil, "exit status 1", "signal: killed", "failed to start task", "context canceled"}

----------------------------------------------------------------------------
(* The controller specification: the tool picker, the piped task runs and  *)
(* tool removal, with mise answering every start-up load                   *)

InitCmds ==
    {Cmd("LoadMiseTasks"), Cmd("LoadMiseTools"), Cmd("LoadMiseEnvVars"),
     Cmd("LoadMiseVersion"), Cmd("LoadMiseConfigFiles")}

Init ==
    /\ m = InitModel
    /\ pending = SetToBag(InitCmds)
    /\ procs = {}
    /\ nruns = 0
    /\ watcherOpen = FALSE
    /\ now = 0
    /\ status = "running"
    /\ dones = 0
    /\ hist = <<>>
    /\ shown = {}
    /\ last = [msg |-> [type |-> "Init"], cmds |-> <<>>, fx |-> <<>>, at |-> 0]
    /\ input = [runs |-> MaxRuns]
    /\ ret = NoReturn

Keys == {"tab", "enter", "esc", "q", "a", "u"}

\* what a task process writes
SpecLines == [stdout |-> MaxLines, stderr |-> 0]

\* the three sections are past their "Loading..." placeholder
Loaded == ~m.tasksLoading /\ ~m.toolsLoading /\ ~m.envVarsLoading

\* the user starts typing once the sections show
Next ==
    \/ \E k \in Keys : Loaded /\ KeyPress(k)
    \/ \E c \in BagToSet(pending) : \E msg \in Outcomes(c, Data) : Complete(c, msg)
    \/ QuitLoop
    \/ \E p \in procs : \E s \in Streams : ProcOutput(p, s, SpecLines)
    \/ \E p \in procs : \E e \in Exits(p) : ProcExit(p, e)
    \/ \E p \in procs : \E err \in ExitErrs : \E cap \in Caps(p, SpecLines) :
            ProcDone(p, err, cap, SpecLines)

Spec == Init /\ [][Next]_vars

----------------------------------------------------------------------------
(* The reload specification: loads that fail, config files that change    *)
(* while the clock runs, and the task filter                               *)

ReloadData ==
    [Data EXCEPT !.fail = {"LoadMiseTasks", "LoadMiseTools", "LoadMiseEnvVars"}]

ReloadKeys == {"/", "esc"}

NextReload ==
    \/ \E k \in ReloadKeys : KeyPress(k)
    \/ \E c \in BagToSet(pending) : \E msg \in Outcomes(c, ReloadData) : Complete(c, msg)
    \/ QuitLoop
    \/ \E path \in Range(m.configPaths) : FileEvent(path)
    \/ Tick

SpecReload == Init /\ [][NextReload]_vars

----------------------------------------------------------------------------
(* The masking specification: the environment section, reloaded with      *)
(* changing variables                                                      *)

EnvData ==
    [Data EXCEPT !.envVars = {<<EnvVar("SECRET", "s1")>>, <<EnvVar("SECRET", "s2")>>, <<>>},
                 !.fail = {"LoadMiseEnvVars"}]

EnvKeys == {"tab", "v", "V", "h"}

NextEnv ==
    \/ \E k \in EnvKeys : Loaded /\ KeyPress(k)
    \/ \E c \in BagToSet(pending) : \E msg \in Outcomes(c, EnvData) : Complete(c, msg)
    \/ \E path \in Range(m.configPaths) : FileEvent(path)
    \/ Tick

SpecEnv == Init /\ [][NextEnv]_vars

----------------------------------------------------------------------------
(* The output specification: a run with more lines than the buffer holds   *)

OutputKeys == {"enter", "q"}

OutputLines == [stdout |-> LongRun, stderr |-> 0]

NextOutput ==
    \/ \E k \in OutputKeys : Loaded /\ KeyPress(k)
    \/ \E c \in BagToSet(pending) : \E msg \in Outcomes(c, Data) : Complete(c, msg)
    \/ QuitLoop
    \/ \E p \in procs : \E s \in Streams : ProcOutput(p, s, OutputLines)
    \/ \E p \in procs : \E e \in Exits(p) : ProcExit(p, e)
    \/ \E p \in procs : \E err \in ExitErrs : \E cap \in Caps(p, OutputLines) :
            ProcDone(p, err, cap, OutputLines)

SpecOutput == Init /\ [][NextOutput]_vars

----------------------------------------------------------------------------
(* The cancellation specification: a task started and cancelled with the  *)
(* tool picker in reach; processes end once killed, cmd.Wait returns once  *)
(* the process has ended, and the loop takes the messages sent to it       *)

CancelData == [Data EXCEPT !.tasks = {<<Task("test", CfgCwd)>>}, !.fail = {}]

CancelKeys == {"tab", "a", "enter", "esc", "ctrl+c"}

ProcKilled == \E p \in procs : ProcExit(p, "killed")

ProcWaited ==
    \E p \in procs : \E err \in ExitErrs : \E cap \in Caps(p, NoLines) :
        ProcDone(p, err, cap, NoLines)

NextCancel ==
    \/ \E k \in CancelKeys : Loaded /\ KeyPress(k)
    \/ \E c \in BagToSet(pending) : \E msg \in Outcomes(c, CancelData) : Complete(c, msg)
    \/ QuitLoop
    \/ \E p \in procs : \E e \in Exits(p) : ProcExit(p, e)
    \/ ProcWaited

SpecCancel ==
    /\ Init /\ [][NextCancel]_vars
    /\ WF_vars(ProcKilled) /\ WF_vars(ProcWaited) /\ WF_vars(QuitLoop)

----------------------------------------------------------------------------
(* The streams specification: one task that writes to both pipes, started, *)
(* cancelled or left to end, with the same scheduling as above             *)

TaskKeys == {"enter", "ctrl+c", "q"}

TaskLines == [stdout |-> OutLines, stderr |-> ErrLines]

TaskWaited ==
    \E p \in procs : \E err \in ExitErrs : \E cap \in Caps(p, TaskLines) :
        ProcDone(p, err, cap, TaskLines)

NextTask ==
    \/ \E k \in TaskKeys : Loaded /\ KeyPress(k)
    \/ \E c \in BagToSet(pending) : \E msg \in Outcomes(c, CancelData) : Complete(c, msg)
    \/ QuitLoop
    \/ \E p \in procs : \E s \in Streams : ProcOutput(p, s, TaskLines)
    \/ \E p \in procs : \E e \in Exits(p) : ProcExit(p, e)
    \/ TaskWaited

SpecTask ==
    /\ Init /\ [][NextTask]_vars
    /\ WF_vars(ProcKilled) /\ WF_vars(TaskWaited) /\ WF_vars(QuitLoop)

----------------------------------------------------------------------------
(* The navigation specification: three tasks, the cursor, the focus cycle  *)
(* and the task filter                                                     *)

NavData ==
    [Data EXCEPT !.tasks = {<<Task("build", CfgCwd), Task("test", CfgCwd),
                              Task("deploy", CfgCwd)>>},
                 !.fail = {}]

NavKeys == {"tab", "down", "enter", "/", "esc", "e", "b", "h"}

NextNav ==
    \/ \E k \in NavKeys : Loaded /\ KeyPress(k)
    \/ \E c \in BagToSet(pending) : \E msg \in Outcomes(c, NavData) : Complete(c, msg)
    \/ QuitLoop
    \/ \E p \in procs : \E e \in Exits(p) : ProcExit(p, e)
    \/ ProcWaited

SpecNav == Init /\ [][NextNav]_vars

----------------------------------------------------------------------------
(* The arguments specification: the argument input opened from the tasks   *)
(* table and from the filter, for a piped and for an interactive run       *)

ArgsData ==
    [Data EXCEPT !.tasks = {<<Task("build", CfgCwd), Task("test", CfgHome)>>}, !.fail = {}]

ArgsKeys == {"down", "alt+enter", "ctrl+enter", "ctrl+shift+enter", "/", "e", "space",
             "esc", "enter"}

NextArgs ==
    \/ \E k \in ArgsKeys : Loaded /\ KeyPress(k)
    \/ \E c \in BagToSet(pending) : \E msg \in Outcomes(c, ArgsData) : Complete(c, msg)
    \/ \E p \in procs : \E e \in Exits(p) : ProcExit(p, e)
    \/ ProcWaited

SpecArgs == Init /\ [][NextArgs]_vars

----------------------------------------------------------------------------
(* The rerun specification: one task, run, closed and run again while the  *)
(* readers of the first run may still hold a line                          *)

InitRerun ==
    /\ m = InitModel
    /\ pending = SetToBag(InitCmds)
    /\ procs = {}
    /\ nruns = 0
    /\ watcherOpen = FALSE
    /\ now = 0
    /\ status = "running"
    /\ dones = 0
    /\ hist = <<>>
    /\ shown = {}
    /\ last = [msg |-> [type |-> "Init"], cmds |-> <<>>, fx |-> <<>>, at |-> 0]
    /\ input = [runs |-> Reruns]
    /\ ret = NoReturn

RerunKeys == {"enter", "esc"}

NextRerun ==
    \/ \E k \in RerunKeys : Loaded /\ KeyPress(k)
    \/ \E c \in BagToSet(pending) : \E msg \in Outcomes(c, CancelData) : Complete(c, msg)
    \/ \E p \in procs : \E s \in Streams : ProcOutput(p, s, SpecLines)
    \/ \E p \in procs : \E e \in Exits(p) : ProcExit(p, e)
    \/ \E p \in procs : \E err \in ExitErrs : \E cap \in Caps(p, SpecLines) :
            ProcDone(p, err, cap, SpecLines)

SpecRerun == InitRerun /\ [][NextRerun]_vars

----------------------------------------------------------------------------
(* The picker specification: a registry of two tools, a selection that is  *)
(* cancelled while its versions load, and a second selection               *)

PickData == [Data EXCEPT !.registry = {<<"node", "go">>}, !.fail = {}]

PickKeys == {"tab", "a", "down", "enter", "esc"}

NextPick ==
    \/ \E k \in PickKeys : Loaded /\ KeyPress(k)
    \/ \E c \in BagToSet(pending) : \E msg \in Outcomes(c, PickData) : Complete(c, msg)

SpecPick == Init /\ [][NextPick]_vars

----------------------------------------------------------------------------
(* The empty-collection specification: mise answers with no task or with   *)
(* one, and the config files change between the loads                      *)

EmptyData == [Data EXCEPT !.tasks = {<<>>, <<Task("test", CfgCwd)>>}, !.fail = {}]

EmptyKeys == {"enter", "down"}

NextEmpty ==
    \/ \E k \in EmptyKeys : Loaded /\ KeyPress(k)
    \/ \E c \in BagToSet(pending) : \E msg \in Outcomes(c, EmptyData) : Complete(c, msg)
    \/ \E path \in Range(m.configPaths) : FileEvent(path)
    \/ Tick

SpecEmpty == Init /\ [][NextEmpty]_vars

----------------------------------------------------------------------------
(* The start specification: one task started from the table, from the      *)
(* filter and from the argument input, twice, around a picker whose        *)
(* results may come late                                                   *)

StartKeys == {"tab", "a", "enter", "esc", "/", "alt+enter"}

NextStart ==
    \/ \E k \in StartKeys : Loaded /\ KeyPress(k)
    \/ \E c \in BagToSet(pending) : \E msg \in Outcomes(c, CancelData) : Complete(c, msg)
    \/ \E p \in procs : \E e \in Exits(p) : ProcExit(p, e)
    \/ ProcWaited

SpecStart == InitRerun /\ [][NextStart]_vars

----------------------------------------------------------------------------
(* The quit specification: the user quits while start-up loads are still   *)
(* in flight                                                               *)

QuitKeys == {"q", "tab"}

NextQuit ==
    \/ \E k \in QuitKeys : Loaded /\ KeyPress(k)
    \/ \E c \in BagToSet(pending) : \E msg \in Outcomes(c, Data) : Complete(c, msg)
    \/ \E c \in BagToSet(pending) : \E msg \in Outcomes(c, Data) : CompleteBeforeQuit(c, msg)
    \/ QuitLoop

SpecQuit == Init /\ [][NextQuit]_vars

----------------------------------------------------------------------------
(* The rows specification: two environment variables, one of them empty,   *)
(* shown and hidden one by one and all at once, across reloads             *)

MaskData ==
    [Data EXCEPT !.envVars = {<<EnvVar("TOKEN", ""), EnvVar("SECRET", "s1")>>,
                              <<EnvVar("SECRET", "s2"), EnvVar("API_KEY", "s1")>>, <<>>},
                 !.fail = {"LoadMiseEnvVars"}]

MaskKeys == {"tab", "down", "v", "V", "h"}

NextMask ==
    \/ \E k \in MaskKeys : Loaded /\ KeyPress(k)
    \/ \E c \in BagToSet(pending) : \E msg \in Outcomes(c, MaskData) : Complete(c, msg)
    \/ \E path \in Range(m.configPaths) : FileEvent(path)
    \/ Tick

SpecMask == Init /\ [][NextMask]_vars

----------------------------------------------------------------------------
(* Function specifications: a function of the program is applied once to   *)
(* inputs drawn from a bounded set                                         *)

\* the controller before the program has taken a step
AtRest ==
    /\ m = InitModel
    /\ pending = EmptyBag
    /\ procs = {}
    /\ nruns = 0
    /\ watcherOpen = FALSE
    /\ now = 0
    /\ status = "running"
    /\ dones = 0
    /\ hist = <<>>
    /\ shown = {}
    /\ last = [msg |-> [type |-> "Init"], cmds |-> <<>>, fx |-> <<>>, at |-> 0]

\* the call of fn on input returns v
Return(fn, v) ==
    /\ ret.fn = Nil
    /\ ret' = [fn |-> fn, out |-> v]
    /\ UNCHANGED <<m, pending, procs, nruns, watcherOpen, now, status, hist, shown, dones,
                   last, input>>

\* the sequences of at most n elements of S
SeqsUpTo(S, n) == UNION {[1..k -> S] : k \in 0..n}

\* the elements of a sequence with their multiplicities
BagOfSeq(s) == [x \in Range(s) |-> Cardinality({i \in DOMAIN s : s[i] = x})]

----------------------------------------------------------------------------
(* The filter specification: filterTasks and applyTaskFilter on every task *)
(* collection of at most MaxTasks tasks                                    *)

TaskPool == {Task("build", CfgCwd), Task("test", CfgCwd), Task("deploy", CfgCwd)}

Filters == {"", "b", "d", "e", "x"}

InitFilter ==
    /\ AtRest
    /\ input \in [tasks : SeqsUpTo(TaskPool, MaxTasks), filter : Filters]
    /\ ret = NoReturn

CallFilterTasks == Return("filterTasks", filterTasks(input.tasks, input.filter))

CallApplyTaskFilter ==
    Return("applyTaskFilter",
           applyTaskFilter([InitModel EXCEPT !.tasks = input.tasks,
                                             !.filterInput = input.filter], TRUE).filteredTasks)

NextFilter == CallFilterTasks \/ CallApplyTaskFilter

SpecFilter == InitFilter /\ [][NextFilter]_vars

----------------------------------------------------------------------------
(* The sort specification: handleTasksLoaded and handleToolsLoaded on      *)
(* every delivery of at most MaxRecords distinct records                   *)

TaskRecords == {Task(n, s) : n \in {"build", "test"}, s \in {CfgCwd, CfgSub, CfgParent}}

\* mise ls lists every active version of a tool
ToolRecords ==
    {Tool(n, v, s) : n \in {"go", "node"}, v \in {"18", "20"}, s \in {CfgCwd, CfgHome}}

\* a delivery holds no record twice
Deliveries(S) == {l \in SeqsUpTo(S, MaxRecords) : Cardinality(Range(l)) = Len(l)}

InitSort ==
    /\ AtRest
    /\ input \in [kind : {"tasks"}, records : Deliveries(TaskRecords)]
                 \cup [kind : {"tools"}, records : Deliveries(ToolRecords)]
    /\ ret = NoReturn

\* the collection the handler stores for a delivery
Stored(kind, records) ==
    IF kind = "tasks"
    THEN handleTasksLoaded(InitModel, [type |-> "TasksLoadedMsg", Tasks |-> records,
                                       Err |-> Nil]).tasks
    ELSE handleToolsLoaded(InitModel, [type |-> "ToolsLoadedMsg", Tools |-> records,
                                       Err |-> Nil]).tools

CallHandleTasksLoaded ==
    /\ input.kind = "tasks"
    /\ Return("handleTasksLoaded", Stored("tasks", input.records))

CallHandleToolsLoaded ==
    /\ input.kind = "tools"
    /\ Return("handleToolsLoaded", Stored("tools", input.records))

NextSort == CallHandleTasksLoaded \/ CallHandleToolsLoaded

SpecSort == InitSort /\ [][NextSort]_vars

----------------------------------------------------------------------------
(* The priority specification: sourcePriority on every working directory,  *)
(* home directory and pair of config paths of the pools                    *)

WorkDirs == {cwd, <<"srv", "proj">>}

HomeDirs == {homeDir, <<"root">>}

ConfigPaths ==
    {CfgCwd, CfgSub, CfgParent, CfgHome, CfgSystem, CfgOther, CfgSibling, CfgEtcOld, CfgDots}

InitPriority ==
    /\ AtRest
    /\ input \in [cwd : WorkDirs, homeDir : HomeDirs, a : ConfigPaths, b : ConfigPaths]
    /\ ret = NoReturn

CallSourcePriority ==
    Return("sourcePriority",
           [a |-> sourcePriorityAt(input.cwd, input.homeDir, input.a),
            b |-> sourcePriorityAt(input.cwd, input.homeDir, input.b)])

NextPriority == CallSourcePriority

SpecPriority == InitPriority /\ [][NextPriority]_vars

----------------------------------------------------------------------------
(* Layout: the heights of the three tables *)

\* the height left for the tables once the header, the section titles, the
\* spacers and the help are taken off
availableHeight(windowHeight) ==
    windowHeight - (headerLines + (numTables * sectionTitleLines)
                    + (numTables * sectionSpacerLines) + helpLines)

\* calculateTableHeights sending needs that fit exactly to the proportional
\* distribution
calculateTableHeightsStrict(windowHeight, taskRows, toolRows, envVarRows) ==
    LET floors == <<minTableHeight, minTableHeight, minTableHeight>>
        available == availableHeight(windowHeight)
        taskNeeds == taskRows + tableHeaderHeight
        toolNeeds == toolRows + tableHeaderHeight
        envVarNeeds == envVarRows + tableHeaderHeight
        totalNeeds == taskNeeds + toolNeeds + envVarNeeds
        remaining == available - (numTables * minTableHeight)
        totalRows == taskRows + toolRows + envVarRows
        taskExtra == (remaining * taskRows) \div totalRows
        toolExtra == (remaining * toolRows) \div totalRows
        envVarExtra == remaining - taskExtra - toolExtra
        each == remaining \div numTables
    IN  IF windowHeight = 0 THEN floors
        ELSE IF available < numTables * minTableHeight THEN floors
        ELSE IF totalNeeds < available THEN <<taskNeeds, toolNeeds, envVarNeeds>>
        ELSE IF remaining > 0
             THEN IF totalRows > 0
                  THEN <<minTableHeight + taskExtra, minTableHeight + toolExtra,
                         minTableHeight + envVarExtra>>
                  ELSE <<minTableHeight + each, minTableHeight + each,
                         minTableHeight + (remaining - (numTables - 1) * each)>>
             ELSE floors

\* calculateTableHeights giving the last table its own share only
calculateTableHeightsNoRemainder(windowHeight, taskRows, toolRows, envVarRows) ==
    LET floors == <<minTableHeight, minTableHeight, minTableHeight>>
        available == availableHeight(windowHeight)
        taskNeeds == taskRows + tableHeaderHeight
        toolNeeds == toolRows + tableHeaderHeight
        envVarNeeds == envVarRows + tableHeaderHeight
        totalNeeds == taskNeeds + toolNeeds + envVarNeeds
        remaining == available - (numTables * minTableHeight)
        totalRows == taskRows + toolRows + envVarRows
        taskExtra == (remaining * taskRows) \div totalRows
        toolExtra == (remaining * toolRows) \div totalRows
        envVarExtra == (remaining * envVarRows) \div totalRows
        each == remaining \div numTables
    IN  IF windowHeight = 0 THEN floors
        ELSE IF available < numTables * minTableHeight THEN floors
        ELSE IF totalNeeds <= available THEN <<taskNeeds, toolNeeds, envVarNeeds>>
        ELSE IF remaining > 0
             THEN IF totalRows > 0
                  THEN <<minTableHeight + taskExtra, minTableHeight + toolExtra,
                         minTableHeight + envVarExtra>>
                  ELSE <<minTableHeight + each, minTableHeight + each,
                         minTableHeight + each>>
             ELSE floors

\* the heights of the tasks, tools and environment tables
calculateTableHeights(windowHeight, taskRows, toolRows, envVarRows) ==
    LET floors == <<minTableHeight, minTableHeight, minTableHeight>>
        available == availableHeight(windowHeight)
        taskNeeds == taskRows + tableHeaderHeight
        toolNeeds == toolRows + tableHeaderHeight
        envVarNeeds == envVarRows + tableHeaderHeight
        totalNeeds == taskNeeds + toolNeeds + envVarNeeds
        remaining == available - (numTables * minTableHeight)
        totalRows == taskRows + toolRows + envVarRows
        taskExtra == (remaining * taskRows) \div totalRows
        toolExtra == (remaining * toolRows) \div totalRows
        envVarExtra == remaining - taskExtra - toolExtra
        each == remaining \div numTables
    IN  IF windowHeight = 0 THEN floors
        ELSE IF available < numTables * minTableHeight THEN floors
        ELSE IF totalNeeds <= available THEN <<taskNeeds, toolNeeds, envVarNeeds>>
        ELSE IF remaining > 0
             THEN IF totalRows > 0
                  THEN <<minTableHeight + taskExtra, minTableHeight + toolExtra,
                         minTableHeight + envVarExtra>>
                  ELSE <<minTableHeight + each, minTableHeight + each,
                         minTableHeight + (remaining - (numTables - 1) * each)>>
             ELSE floors

----------------------------------------------------------------------------
(* The layout specification: calculateTableHeights on every window height  *)
(* up to MaxHeight and every triple of row counts up to MaxRows            *)

InitLayout ==
    /\ AtRest
    /\ input \in [windowHeight : 0..MaxHeight, taskRows : 0..MaxRows,
                  toolRows : 0..MaxRows, envVarRows : 0..MaxRows]
    /\ ret = NoReturn

CallCalculateTableHeights ==
    Return("calculateTableHeights",
           calculateTableHeights(input.windowHeight, input.taskRows, input.toolRows,
                                 input.envVarRows))

NextLayout == CallCalculateTableHeights

SpecLayout == InitLayout /\ [][NextLayout]_vars

----------------------------------------------------------------------------
(* Package watcher: a watcher is Nil (never started), "open" or "closed" *)

CfgLocal == <<"home", "u", "proj", ".mise.local.toml">>
OtherFile == <<"home", "u", "proj", "other.txt">>

\* StartFileWatcher: the watcher and the error it returns, the state of the
\* fsnotify watcher it created, and whether it started watchLoop.  When a
\* directory cannot be watched it closes the watcher and returns nil and
\* the error.
StartFileWatcher(paths, addErr) ==
    IF addErr
    THEN [w |-> Nil, err |-> "watching", created |-> "closed", loop |-> "none"]
    ELSE [w |-> "open", err |-> Nil, created |-> "open", loop |-> "running"]

\* the body of watchLoop forwarding every write in a watched directory
watchLoopAnyFile(configFiles, event) ==
    IF "Write" \in event.Op /\ Dir(event.Name) \in {Dir(f) : f \in configFiles}
    THEN <<[type |-> "FileChangedMsg", Path |-> event.Name]>>
    ELSE <<>>

\* the body of watchLoop for one event of watcher.Events: what it sends
watchLoop(configFiles, event) ==
    IF "Write" \in event.Op /\ event.Name \in configFiles
    THEN <<[type |-> "FileChangedMsg", Path |-> event.Name]>>
    ELSE <<>>

\* Close calling w.Close() on any watcher: a nil pointer panics
CloseNoNilCheck(w) == IF w = Nil THEN "panic" ELSE "closed"

\* Close; fsnotify's Watcher.Close returns nil on a closed watcher
Close(w) == IF w # Nil THEN "closed" ELSE w

----------------------------------------------------------------------------
(* The watcher specification: a watcher is started on one or two config    *)
(* files of one directory, at most MaxEvents events arrive for files of    *)
(* that directory, and Close is called at most MaxCloses times             *)

WatchedPaths == {<<CfgCwd>>, <<CfgCwd, CfgLocal>>}

Ops == {{"Write"}, {"Create"}, {"Write", "Chmod"}}

Events == [Name : {CfgCwd, CfgLocal, OtherFile}, Op : Ops]

\* ret.out holds the watcher the controller was given, the events watchLoop
\* has taken, the messages it has sent, the calls of Close so far, what
\* StartFileWatcher returned and created, the position of watchLoop ("none",
\* "running", "returned") and that of the goroutine of fsnotify that feeds
\* watcher.Events ("none", "running", "exited")
InitWatcher ==
    /\ AtRest
    /\ input \in [paths : WatchedPaths, events : SeqsUpTo(Events, MaxEvents)]
    /\ ret = [fn |-> Nil,
              out |-> [w |-> Nil, taken |-> 0, sent |-> <<>>, closes |-> 0, err |-> Nil,
                       created |-> "none", loop |-> "none", reader |-> "none"]]

Step(fn, out) ==
    /\ ret' = [fn |-> fn, out |-> out]
    /\ UNCHANGED <<m, pending, procs, nruns, watcherOpen, now, status, hist, shown, dones,
                   last, input>>

CallStartFileWatcher(addErr) ==
    /\ ret.fn = Nil
    /\ LET r == StartFileWatcher(input.paths, addErr) IN
        Step("StartFileWatcher",
             [ret.out EXCEPT !.w = r.w, !.err = r.err, !.created = r.created,
                             !.loop = r.loop,
                             !.reader = IF r.created = "open" THEN "running" ELSE "exited"])

\* watchLoop receives the next event of watcher.Events and handles it.  The
\* goroutine of fsnotify offers an event with a select between the Events
\* channel and its done channel, so an event it had read before Close may
\* still be received after it.
WatchLoopEvent ==
    /\ ret.out.loop = "running"
    /\ ret.out.reader = "running"
    /\ ret.out.taken < Len(input.events)
    /\ Step("watchLoop",
            [ret.out EXCEPT !.taken = @ + 1,
                            !.sent = @ \o watchLoop(Range(input.paths),
                                                    input.events[ret.out.taken + 1])])

CallClose ==
    /\ ret.out.w # "panic"
    /\ ret.out.closes < MaxCloses
    /\ Step("Close", [ret.out EXCEPT !.w = Close(@), !.closes = @ + 1])

\* after Close the goroutine of fsnotify returns and closes watcher.Events
\* and watcher.Errors
ReadEventsExit ==
    /\ ret.out.w = "closed"
    /\ ret.out.reader = "running"
    /\ Step("readEvents", [ret.out EXCEPT !.reader = "exited"])

\* watchLoop finds one of its channels closed and returns
WatchLoopReturn ==
    /\ ret.out.loop = "running"
    /\ ret.out.reader = "exited"
    /\ Step("watchLoop", [ret.out EXCEPT !.loop = "returned"])

NextWatcher ==
    \/ \E addErr \in BOOLEAN : CallStartFileWatcher(addErr)
    \/ WatchLoopEvent
    \/ CallClose
    \/ ReadEventsExit
    \/ WatchLoopReturn

SpecWatcher == InitWatcher /\ [][NextWatcher]_vars

\* the two goroutines are scheduled
SpecWatchLoop == SpecWatcher /\ WF_vars(ReadEventsExit) /\ WF_vars(WatchLoopReturn)

----------------------------------------------------------------------------
(* Overlays *)

Overlays(mm) ==
    (IF mm.showOutput THEN 1 ELSE 0) + (IF mm.pickerState # pickerClosed THEN 1 ELSE 0)
    + (IF mm.filterActive THEN 1 ELSE 0) + (IF mm.argInputActive THEN 1 ELSE 0)

\* C1: in every reachable state at most one of the output view, the picker,
\* the filter input and the argument input is active.
C1_AtMostOneOverlay == Overlays(m) <= 1

\* the runs whose taskDoneMsg is still to come
Waiting(ps) == {p.run : p \in {q \in ps : ~q.done}}

\* this step delivers a taskDoneMsg
TaskDoneDelivered ==
    /\ Waiting(procs') # Waiting(procs)
    /\ Waiting(procs') \subseteq Waiting(procs)

\* C2: a step that delivers a taskDoneMsg, whatever overlay is active, clears
\* taskRunning and cancelFunc and records the error of the message, and
\* leaves output and totalOutputLines as they were.
C2_TaskDoneFolded ==
    [][TaskDoneDelivered =>
        /\ ~m'.taskRunning
        /\ m'.cancelFunc = 0
        /\ m'.taskErr = last'.msg.err
        /\ m'.output = m.output
        /\ m'.totalOutputLines = m.totalOutputLines]_vars

----------------------------------------------------------------------------
(* The picker workflow *)

IsKey(msg, k) == msg.type = "key" /\ msg.key = k
Failed(msg, type) == msg.type = type /\ msg.Err # Nil
Succeeded(msg, type) == msg.type = type /\ msg.Err = Nil

\* the edges of the picker workflow: msg, handled in model mm, takes the
\* picker from one step to another
PickerEdge(from, to, mm, msg) ==
    \/ from = pickerClosed /\ to = pickerSelectTool
            /\ IsKey(msg, "a") /\ mm.focus = focusTools
    \/ from = pickerSelectTool /\ to = pickerLoadingVersions
            /\ IsKey(msg, "enter") /\ HasSelectedItem(mm.toolList)
    \/ from = pickerLoadingVersions /\ to = pickerSelectVersion
            /\ Succeeded(msg, "VersionsLoadedMsg")
    \/ from = pickerLoadingVersions /\ to = pickerSelectTool
            /\ Failed(msg, "VersionsLoadedMsg")
    \/ from = pickerSelectVersion /\ to = pickerSelectConfig /\ IsKey(msg, "enter")
    \/ from = pickerSelectConfig /\ to = pickerInstalling /\ IsKey(msg, "enter")
    \/ from = pickerInstalling /\ to = pickerClosed /\ msg.type = "ToolInstalledMsg"
    \/ from = pickerSelectConfig /\ to = pickerSelectVersion /\ IsKey(msg, "esc")
    \/ from = pickerSelectVersion /\ to = pickerSelectTool /\ IsKey(msg, "esc")
    \/ from # pickerClosed /\ to = pickerClosed /\ IsKey(msg, "q")
    \/ from \in {pickerSelectTool, pickerLoadingVersions, pickerInstalling}
            /\ to = pickerClosed /\ IsKey(msg, "esc")

\* C8: the picker step changes only along the edges of the workflow; no
\* other message in any state changes it.
C8_PickerEdgesOnly ==
    [][m'.pickerState # m.pickerState =>
        PickerEdge(m.pickerState, m'.pickerState, m, last'.msg)]_vars

ToolReloads(cmds) == Cardinality({i \in DOMAIN cmds : cmds[i].kind = "LoadMiseTools"})

\* C10: a successful install or remove completion issues exactly one
\* tools-reload command and a failed one none, in whatever state it arrives.
C10_OneToolsReload ==
    last.msg.type \in {"ToolInstalledMsg", "ToolRemovedMsg"} =>
        ToolReloads(last.cmds) = (IF last.msg.Err = Nil THEN 1 ELSE 0)

----------------------------------------------------------------------------
(* Reloads *)

\* this step delivers a FileChangedMsg
FileChangedDelivered ==
    /\ last'.msg.type = "FileChangedMsg"
    /\ last' # last \/ m' # m \/ pending' # pending

\* C3: a delivered file-change notification is dropped, with no command
\* issued, exactly if less than debounceInterval has passed since the last
\* accepted one; otherwise it sets lastReload and issues the one full reload.
C3_DebouncedReload ==
    [][FileChangedDelivered =>
        IF m.lastReload # ZeroTime /\ now - m.lastReload < debounceInterval
        THEN last'.cmds = <<>> /\ m'.lastReload = m.lastReload
        ELSE last'.cmds = ReloadMiseData /\ m'.lastReload = now]_vars

\* names and values of a list of environment variables
NamesValues(envVars) ==
    IF envVars = <<>> THEN <<>>
    ELSE [i \in 1..Len(envVars) |-> <<envVars[i].name, envVars[i].value>>]

\* C6: every delivered tasks, tools or environment load completion is folded
\* into the state, whatever overlay is active: the loading flag is false
\* afterwards and the collection, or on failure the error, is recorded.
C6_LoadsFolded ==
    /\ last.msg.type = "TasksLoadedMsg" =>
            /\ ~m.tasksLoading
            /\ IF last.msg.Err = Nil THEN m.tasks = SortBySource(last.msg.Tasks)
               ELSE m.err = last.msg.Err
    /\ last.msg.type = "ToolsLoadedMsg" =>
            /\ ~m.toolsLoading
            /\ IF last.msg.Err = Nil THEN m.tools = SortBySource(last.msg.Tools)
               ELSE m.err = last.msg.Err
    /\ last.msg.type = "EnvVarsLoadedMsg" =>
            /\ ~m.envVarsLoading
            /\ IF last.msg.Err = Nil
               THEN NamesValues(m.envVars) = NamesValues(SortByName(last.msg.EnvVars))
               ELSE m.err = last.msg.Err

\* C7: once a section's load error is recorded, the next successful load of
\* that section clears it: after the successful load m.err no longer holds
\* the error of that section.
C7_ErrorResolved ==
    /\ Succeeded(last.msg, "TasksLoadedMsg") => m.err # ErrOf("LoadMiseTasks")
    /\ Succeeded(last.msg, "ToolsLoadedMsg") => m.err # ErrOf("LoadMiseTools")
    /\ Succeeded(last.msg, "EnvVarsLoadedMsg") => m.err # ErrOf("LoadMiseEnvVars")

----------------------------------------------------------------------------
(* Masking *)

\* C5: a name unmasked by v or V is unmasked after every later environment
\* reload, whatever it carries and however it ends, until h hides it.
C5_UnmaskedPersists ==
    \A i \in DOMAIN m.envVars : m.envVars[i].name \in shown => ~m.envVars[i].masked

----------------------------------------------------------------------------
(* The output buffer *)

\* the last n elements of s
LastN(s, n) == SubSeq(s, Len(s) - n + 1, Len(s))

\* the buffer holds the most recent min(n, maxOutputLines) of the n lines
\* handled since the last task start, in the order of arrival, and the
\* total is n
Retained ==
    /\ m.output = LastN(hist, Min(Len(hist), maxOutputLines))
    /\ m.totalOutputLines = Len(hist)
    /\ Len(m.output) <= maxOutputLines

\* C4 as stated: after any n task-output messages handled since the last
\* task start the buffer holds the most recent min(n, maxOutputLines) of them
\* in the order of arrival, the total is n and the buffer is never longer
\* than maxOutputLines.
C4_RollingBuffer == Retained

\* C4, amended: the same as long as the output view of the run is open;
\* closing the view empties the buffer and keeps the total.
C4_RollingBufferWhileShown == m.showOutput => Retained

\* more lines than the buffer holds have come in, and the view is open
C4_Rolled ==
    /\ m.showOutput
    /\ m.totalOutputLines > maxOutputLines
    /\ Len(m.output) = maxOutputLines

----------------------------------------------------------------------------
(* Quitting and the output view *)

KeyMsg(k) == [type |-> "key", key |-> k]

\* what Update would return for a key pressed in the current state
Pressed(k) == Update(m, KeyMsg(k), [now |-> now, run |-> nruns + 1])

QuitsLoop(r) ==
    ~r.panic /\ Quit \in Range(r.cmds) /\ "watcher.Close" \in Range(r.fx)

\* C11: in every controller state, whatever overlay is active, pressing q or
\* ctrl+c closes the file watcher and issues the quit command.
C11_QuitEverywhere ==
    status = "running" => \A k \in {"q", "ctrl+c"} : QuitsLoop(Pressed(k))

OutputKept(r) == r.m = m /\ r.cmds = <<>> /\ r.fx = <<>>

OutputClosed(r) ==
    /\ ~r.m.showOutput
    /\ r.m.output = <<>>
    /\ r.m.runningTask = ""
    /\ r.m.taskErr = Nil
    /\ Overlays(r.m) = 0
    /\ r.cmds = <<>>

\* C12: in the output view q and esc change nothing while the task runs;
\* once it has finished they return to Normal and clear the output buffer,
\* the task name and the task error.
C12_OutputClose ==
    (status = "running" /\ m.showOutput /\ Switched(m)) =>
        \A k \in {"q", "esc"} :
            IF m.taskRunning THEN OutputKept(Pressed(k)) ELSE OutputClosed(Pressed(k))

\* q has closed the output view of a finished run that had produced output
C12_Closed ==
    /\ last.msg = KeyMsg("q")
    /\ last.cmds = <<>>
    /\ ~m.showOutput
    /\ m.runningTask = ""
    /\ m.totalOutputLines > 0
    /\ dones = 1

\* C13: a cancellation handle is held exactly while the controller has a
\* piped task running: cancelFunc is set if and only if taskRunning.
C13_HandleIffRunning == (m.cancelFunc # 0) <=> m.taskRunning

\* the handle of the running task has been invoked and is still held
C13_Cancelled ==
    /\ m.cancelFunc # 0
    /\ \E p \in procs : p.killed /\ p.exit = "" /\ p.run = m.cancelFunc

\* ctrl+c has cancelled the task the controller shows as running
KilledRunning == m.taskRunning /\ \E p \in procs : p.killed /\ p.run = m.cancelFunc

\* C14: once ctrl+c has cancelled the running task, the process ends, its
\* taskDoneMsg is handled and the controller leaves running: it does not
\* show the task as running forever (unless the program ends first).
C14_CancelEnds == KilledRunning ~> (~m.taskRunning \/ status # "running")

----------------------------------------------------------------------------
(* Piped runs *)

\* p is the run whose taskDoneMsg this step delivers
DoneOf(p) == ~p.done /\ p.run \notin Waiting(procs')

\* the process of a run has ended and cmd.Wait has not yet returned
RunEnded == \E p \in procs : p.exit # "" /\ ~p.done

\* one taskDoneMsg for every run whose cmd.Wait has returned and none for
\* the others; no line from a run that failed to start; and every ended run
\* gets its message while the loop runs
OneTaskDone ==
    /\ [](dones + Cardinality(Waiting(procs)) = nruns)
    /\ [](\A p \in procs : p.exit = "startfail" => p.sent = NoLines)
    /\ RunEnded ~> (dones = nruns \/ status # "running")

\* C15 as stated: every piped run emits exactly one taskDoneMsg, also when
\* the pipes or the start fail (no reader is started then) and when the run
\* is cancelled, and the message carries a nil error exactly if the process
\* exited successfully.
C15_OneTaskDone ==
    /\ OneTaskDone
    /\ [][TaskDoneDelivered =>
            \E p \in procs : DoneOf(p) /\ (last'.msg.err = Nil <=> p.exit = "success")]_vars

\* C15, amended: the same, with a nil error only if the process exited
\* successfully, and always then unless the run was cancelled before cmd.Wait
\* returned.
C15_OneTaskDoneNilOnlyOnSuccess ==
    /\ OneTaskDone
    /\ [][TaskDoneDelivered =>
            \E p \in procs :
                /\ DoneOf(p)
                /\ last'.msg.err = Nil => p.exit = "success"
                /\ (p.exit = "success" /\ ~p.killed) => last'.msg.err = Nil]_vars

\* a run that failed to start has sent its one taskDoneMsg, and no line
C15_StartFailed ==
    /\ dones = 1
    /\ nruns = 1
    /\ procs = {}
    /\ last.msg = [type |-> "taskDoneMsg", err |-> "failed to start task"]
    /\ m.totalOutputLines = 0

\* C16: every line the task process writes to stdout or stderr is forwarded
\* to the controller, however the readers interleave with cmd.Wait: when
\* cmd.Wait returns for a process that ended by itself, having written all
\* its lines, none of them is left behind in a pipe.
C16_NoLineLost ==
    \A p \in procs :
        (p.done /\ p.exit \in {"success", "failure"}) => p.cap = TaskLines

\* C17: the lines of one stream are in the output buffer in the order the
\* process wrote them, however the two readers interleave.
C17_StreamOrder ==
    \A i, j \in DOMAIN m.output :
        (i < j /\ m.output[i][1] = m.output[j][1] /\ m.output[i][2] = m.output[j][2])
            => m.output[i][3] < m.output[j][3]

\* the stderr line has come in between the two stdout lines
C17_Interleaved ==
    m.output = <<<<1, "stdout", 1>>, <<1, "stderr", 1>>, <<1, "stdout", 2>>>>

----------------------------------------------------------------------------
(* Navigation *)

\* the model after key k is pressed in model mm
After(mm, k) == Update(mm, KeyMsg(k), [now |-> now, run |-> nruns + 1]).m

\* r starts the piped task name
Starts(r, name) == \E c \in Range(r.cmds) : c.kind = "runTask" /\ c.task = name

Names(tasks) == [i \in DOMAIN tasks |-> tasks[i].name]

\* the three tasks have just been loaded and no key has moved the cursor
ThreeTasksLoaded ==
    /\ status = "running"
    /\ Loaded
    /\ m.err = Nil
    /\ Overlays(m) = 0
    /\ m.focus = focusTasks
    /\ m.filterInput = ""
    /\ m.tasksTable.cursor = 0
    /\ {m.tasks[i].name : i \in DOMAIN m.tasks} = {"build", "test", "deploy"}

\* C18: after the load of the tasks build, test, deploy (delivered in that
\* order, from one config file), with no filter query, pressing down twice
\* and then Enter in the Tasks section starts the task deploy.
C18_DownDownEnter ==
    ThreeTasksLoaded =>
        Starts(Update(After(After(m, "down"), "down"), KeyMsg("enter"),
                      [now |-> now, run |-> nruns + 1]), "deploy")

\* exactly the table of the focused section is focused
FocusExact(mm) ==
    /\ mm.focus \in {focusTasks, focusTools, focusEnvVars}
    /\ mm.tasksTable.focus = (mm.focus = focusTasks)
    /\ mm.toolsTable.focus = (mm.focus = focusTools)
    /\ mm.envVarsTable.focus = (mm.focus = focusEnvVars)

TabCycle(m0, m1, m2, m3) ==
    /\ FocusExact(m1) /\ FocusExact(m2) /\ FocusExact(m3)
    /\ m1.focus = (m0.focus + 1) % focusSectionCount
    /\ m2.focus = (m1.focus + 1) % focusSectionCount
    /\ m3.focus = m0.focus

\* C19: the focus is always one of the three sections; in Normal mode three
\* presses of Tab bring the focus back to the section it started from, and
\* after each of them exactly the table of the focused section is focused.
C19_TabCycle ==
    /\ m.focus \in {focusTasks, focusTools, focusEnvVars}
    /\ (status = "running" /\ Overlays(m) = 0) =>
            TabCycle(m, After(m, "tab"), After(After(m, "tab"), "tab"),
                     After(After(After(m, "tab"), "tab"), "tab"))

\* Tab has brought the focus round to the Tasks section again
C19_BackAtTasks ==
    /\ last.msg = KeyMsg("tab")
    /\ m.focus = focusTasks
    /\ m.tasksTable.focus

EscCleared(r) ==
    /\ ~r.m.filterActive
    /\ r.m.filterInput = ""
    /\ r.m.tasks = m.tasks
    /\ r.m.tasksTable.rows = TaskRows(m.tasks)
    /\ Overlays(r.m) = 0
    /\ r.cmds = <<>>

\* C20: Esc in filter mode returns to Normal with filter mode off, the query
\* cleared and the tasks table showing all the tasks of the collection in
\* its order, whatever the query and the cursor were.
C20_EscRestores ==
    (status = "running" /\ m.pickerState = pickerClosed /\ m.filterActive) =>
        EscCleared(Pressed("esc"))

\* Esc has left the filter and the table shows the three tasks again
C20_Restored ==
    /\ last.msg = KeyMsg("esc")
    /\ last.cmds = <<>>
    /\ ~m.filterActive
    /\ m.pickerState = pickerClosed
    /\ ~m.showOutput
    /\ Len(m.tasksTable.rows) = 3


----------------------------------------------------------------------------
(* Task filter as a function *)

Filtered == ret.fn \in {"filterTasks", "applyTaskFilter"}

\* C21: filtering a task collection with the empty query returns the
\* collection itself, in its order; with a non-empty query the result holds
\* only tasks of the collection, none more often than the collection does.
C21_FilterIdentityAndSubset ==
    Filtered =>
        /\ input.filter = "" => ret.out = input.tasks
        /\ input.filter # "" => BagOfSeq(ret.out) \sqsubseteq BagOfSeq(input.tasks)

\* a query that matches two of three tasks and puts the later one first
C21_MatchesReordered ==
    /\ Filtered
    /\ input.filter = "d"
    /\ input.tasks = <<Task("build", CfgCwd), Task("test", CfgCwd), Task("deploy", CfgCwd)>>
    /\ ret.out = <<Task("deploy", CfgCwd), Task("build", CfgCwd)>>

----------------------------------------------------------------------------
(* Order of the stored collections *)

SortedBySource(s) == \A i \in 1..(Len(s) - 1) : ~LessBySource(s[i + 1], s[i])

\* the orders in which the records of a delivery can arrive
Orders(records) == {q \in [1..Len(records) -> Range(records)] : Range(q) = Range(records)}

LoadStored == ret.fn \in {"handleTasksLoaded", "handleToolsLoaded"}

\* C22: after a successful tasks or tools load the stored collection is in
\* ascending order of source priority and then of name, and it is the same
\* in whatever order the records of the delivery arrive.
C22_SortedAndTotal ==
    LoadStored =>
        /\ SortedBySource(ret.out)
        /\ \A q \in Orders(input.records) : Stored(input.kind, q) = ret.out

\* the first half of C22 alone
C22_Sorted == LoadStored => SortedBySource(ret.out)

----------------------------------------------------------------------------
(* Bands of the source priority *)

\* the band of a config file: 0 in the working directory, 1 below it, 2 in
\* an ancestor directory of it, 3 under the home directory and outside the
\* project tree, 4 under /etc/mise, 5 anywhere else
Band(wd, home, path) ==
    LET dir == Dir(path) IN
    IF dir = wd THEN 0
    ELSE IF IsPrefix(wd, dir) THEN 1
    ELSE IF IsPrefix(dir, wd) THEN 2
    ELSE IF IsPrefix(home, path) THEN 3
    ELSE IF IsPrefix(<<"etc", "mise">>, path) THEN 4
    ELSE 5

\* C23: for every working directory, home directory and pair of config
\* paths, a path of a lower band (working directory, subdirectory, ancestor,
\* home outside the project tree, system, unrelated) has a strictly lower
\* source priority; a home-directory file in an ancestor directory of the
\* working directory counts as an ancestor.
C23_BandsOrdered ==
    ret.fn = "sourcePriority" =>
        (Band(input.cwd, input.homeDir, input.a) < Band(input.cwd, input.homeDir, input.b)
            => ret.out.a < ret.out.b)

----------------------------------------------------------------------------
(* Heights of the tables *)

Laid == ret.fn = "calculateTableHeights"

Rows == <<input.taskRows, input.toolRows, input.envVarRows>>
Needs == [i \in 1..numTables |-> Rows[i] + tableHeaderHeight]
TotalNeeds == Needs[1] + Needs[2] + Needs[3]
Available == availableHeight(input.windowHeight)
Floors == numTables * minTableHeight
HeightSum == ret.out[1] + ret.out[2] + ret.out[3]

\* C24: for every window height and triple of row counts each of the three
\* heights is at least minTableHeight.
C24_FloorKept == Laid => \A i \in 1..numTables : ret.out[i] >= minTableHeight

\* C25: whenever the exact needs (rows plus header lines) fit in the
\* available height, the heights are the exact needs and sum to the total
\* need.
C25_ExactNeeds ==
    Laid /\ TotalNeeds <= Available => ret.out = Needs /\ HeightSum = TotalNeeds

\* C25 amended: the same when the available height also holds three floors;
\* below three floors every height is the floor.
C25_ExactNeedsAboveFloors ==
    Laid =>
        /\ TotalNeeds <= Available /\ Available >= Floors
               => ret.out = Needs /\ HeightSum = TotalNeeds
        /\ Available < Floors => \A i \in 1..numTables : ret.out[i] = minTableHeight

\* needs of 6, 4 and 3 lines in a window with 13 lines for the tables
C25_FitsExactly ==
    /\ Laid
    /\ input.windowHeight = 24 /\ Rows = <<4, 2, 1>>
    /\ ret.out = <<6, 4, 3>>

\* C26: when the exact needs exceed the available height and the available
\* height holds three floors, the three heights sum to the available height.
C26_SumIsAvailable ==
    Laid /\ TotalNeeds > Available /\ Available >= Floors => HeightSum = Available

\* two spare lines and three equal sections: the last one takes both
C26_RemainderAbsorbed ==
    /\ Laid
    /\ input.windowHeight = 25 /\ Rows = <<5, 5, 5>>
    /\ ret.out = <<4, 4, 6>>

\* C27: when the exact needs exceed the available height and there are
\* rows, a section with at least as many rows as another never gets a
\* smaller height than it.
C27_Monotonic ==
    Laid /\ TotalNeeds > Available /\ Rows[1] + Rows[2] + Rows[3] > 0 =>
        \A i, j \in 1..numTables : Rows[i] >= Rows[j] => ret.out[i] >= ret.out[j]

----------------------------------------------------------------------------
(* The file watcher *)

\* a write to one of the config files the watcher was started on
ConfigWrite(event) == "Write" \in event.Op /\ event.Name \in Range(input.paths)

\* the events watchLoop has taken so far
Taken == SubSeq(input.events, 1, ret.out.taken)

\* the paths of the events among them that are writes to config files
WrittenConfigs ==
    LET w == SelectSeq(Taken, ConfigWrite) IN [i \in 1..Len(w) |-> w[i].Name]

SentPaths == [i \in 1..Len(ret.out.sent) |-> ret.out.sent[i].Path]

\* C28: the watcher sends a FileChangedMsg for an event iff the event is a
\* write whose path is one of the config file paths it was started on: one
\* message for each such event, in order, and none for any other event.
C28_ExactlyConfigWrites == SentPaths = WrittenConfigs

\* a write to another file of the directory and a write to the config file
\* have been taken: one message
C28_OtherFileIgnored ==
    /\ input.paths = <<CfgCwd>>
    /\ input.events = <<[Name |-> OtherFile, Op |-> {"Write"}],
                        [Name |-> CfgCwd, Op |-> {"Write"}]>>
    /\ ret.out.taken = 2
    /\ SentPaths = <<CfgCwd>>

\* C29: Close returns without failure on a watcher that was never started,
\* on a running one and on a closed one, and a second Close leaves the
\* watcher as the first left it.
C29_CloseIdempotent ==
    /\ ret.out.w # "panic"
    /\ Close(ret.out.w) # "panic"
    /\ Close(Close(ret.out.w)) = Close(ret.out.w)
    /\ ret.fn = "Close" => ret.out.w = Close(ret.out.w)

\* a running watcher closed twice
C29_ClosedTwice ==
    /\ ret.out.closes = 2
    /\ ret.out.w = "closed"
    /\ ret.out.taken > 0

----------------------------------------------------------------------------
(* Rows of the environment table *)

\* what the row of a variable may show
Shows(ev) == IF ~ev.masked \/ ev.value = "" THEN ev.value ELSE Mask

\* C30: after every load of the environment and every v, V and h, the
\* environment table has one row for each variable, which shows the value
\* when the variable is unmasked or the value is empty and the mask
\* otherwise; the row of a masked variable never shows its non-empty value.
C30_RowsMasked ==
    /\ Len(m.envVarsTable.rows) = Len(m.envVars)
    /\ \A i \in 1..Len(m.envVars) :
        /\ m.envVarsTable.rows[i] = <<m.envVars[i].name, Shows(m.envVars[i])>>
        /\ m.envVars[i].masked /\ m.envVars[i].value # ""
               => m.envVarsTable.rows[i][2] # m.envVars[i].value

\* after v on the first row: SECRET shows its value, and TOKEN, still
\* masked, shows its empty value
C30_OneShown ==
    /\ m.envVarsTable.rows = <<<<"SECRET", "s1">>, <<"TOKEN", "">>>>
    /\ m.envVars[1].masked = FALSE
    /\ m.envVars[2].masked = TRUE

----------------------------------------------------------------------------
(* Showing and hiding environment variables *)

\* the name in the selected row of the environment table, Nil without one
SelectedName(mm) ==
    IF HasSelectedRow(mm.envVarsTable) THEN SelectedRow(mm.envVarsTable)[1] ELSE Nil

\* C31: showSelectedEnvVar unmasks the variable named in the selected row
\* and leaves the masks of the others and every name and value as they
\* were; with no variable or no selected row it changes nothing; after
\* showAllEnvVars and then hideAllEnvVars every variable is masked.
C31_ShowSelectedOnly ==
    LET r == showSelectedEnvVar(m)
        sel == SelectedName(m)
        hidden == hideAllEnvVars(showAllEnvVars(m))
    IN  /\ Len(r.envVars) = Len(m.envVars)
        /\ \A i \in 1..Len(m.envVars) :
              /\ r.envVars[i].name = m.envVars[i].name
              /\ r.envVars[i].value = m.envVars[i].value
              /\ r.envVars[i].masked =
                     (IF m.envVars[i].name = sel THEN FALSE ELSE m.envVars[i].masked)
        /\ (m.envVars = <<>> \/ sel = Nil) => r = m
        /\ Len(hidden.envVars) = Len(m.envVars)
        /\ \A i \in 1..Len(m.envVars) : hidden.envVars[i].masked

\* v on the second row: TOKEN is unmasked, SECRET is still masked
C31_SecondShown ==
    /\ Len(m.envVars) = 2
    /\ m.envVars[1].name = "SECRET" /\ m.envVars[1].masked
    /\ m.envVars[2].name = "TOKEN" /\ ~m.envVars[2].masked
    /\ last.msg.type = "key" /\ last.msg.key = "v"

\* variables are loaded and the table has no selected row
C31_NoSelectedRow == m.envVars # <<>> /\ SelectedName(m) = Nil

----------------------------------------------------------------------------
(* The argument input *)

\* the one command Enter issues for the stored task, mode and text
RunsStored(cmds, mm) ==
    /\ Len(cmds) = 1
    /\ cmds[1].kind = (IF mm.argInputInteractive THEN "runInteractiveTask" ELSE "runTask")
    /\ cmds[1].task = mm.argInputTask
    /\ cmds[1].args = (IF mm.argInput \in {"", " "} THEN <<>> ELSE <<mm.argInput>>)
    /\ cmds[1].argv = <<"mise", "run", mm.argInputTask>>
                      \o (IF cmds[1].args = <<>> THEN <<>> ELSE <<"--">> \o cmds[1].args)

\* the step opens the argument input
ArgInputOpens == ~m.argInputActive /\ m'.argInputActive

\* the step leaves the argument input
ArgInputLeaves == m.argInputActive /\ ~m'.argInputActive

\* C32: the argument input stores the task of the selected row and the mode
\* of the key that opens it, and keeps both while it is open; Esc and Enter
\* both leave it with the stored task and the interactive flag reset; Esc
\* issues no command and leaves no overlay; Enter issues exactly one run of
\* the stored task, piped or interactive as stored, whose command line has
\* the tokens of the text after a "--" only when there is a token.
C32_ArgInputKeys ==
    [][/\ ArgInputOpens =>
            /\ HasSelectedRow(m.tasksTable)
            /\ m'.argInputTask = SelectedRow(m.tasksTable)[1]
            /\ m'.argInputInteractive = (last'.msg.key \in {"ctrl+enter", "ctrl+shift+enter"})
            /\ m'.argInput = ""
       /\ (m.argInputActive /\ m'.argInputActive) =>
            /\ m'.argInputTask = m.argInputTask
            /\ m'.argInputInteractive = m.argInputInteractive
       /\ (m.argInputActive /\ status = "running") =>
            \A k \in {"esc", "enter"} : ~Pressed(k).panic /\ ~Pressed(k).m.argInputActive
       /\ ArgInputLeaves =>
            /\ last'.msg \in {KeyMsg("esc"), KeyMsg("enter")}
            /\ m'.argInputTask = "" /\ ~m'.argInputInteractive
            /\ last'.msg = KeyMsg("esc") =>
                   last'.cmds = <<>> /\ Overlays(m') = 0 /\ pending' = pending
                   /\ procs' = procs
            /\ last'.msg = KeyMsg("enter") =>
                   /\ RunsStored(last'.cmds, m)
                   /\ m.argInputInteractive => (Overlays(m') = 0 /\ procs' = procs)
                   /\ ~m.argInputInteractive =>
                          (m'.taskRunning /\ m'.runningTask = m.argInputTask)]_vars

\* Enter in the argument input, opened from the filter for an interactive
\* run, has started the second task with one argument
C32_InteractiveWithArg ==
    /\ last.msg = KeyMsg("enter")
    /\ Len(last.cmds) = 1
    /\ last.cmds[1].kind = "runInteractiveTask"
    /\ last.cmds[1].argv = <<"mise", "run", "test", "--", "e">>
    /\ m.filterInput = "e"

\* Enter on a blank text has started the piped task with no separator
C32_PipedBlank ==
    /\ last.msg = KeyMsg("enter")
    /\ Len(last.cmds) = 1
    /\ last.cmds[1].kind = "runTask"
    /\ last.cmds[1].argv = <<"mise", "run", "build">>
    /\ nruns = 1 /\ m.runningTask = "build" /\ m.argInput = ""
    /\ \E p \in procs : p.args = <<>>
----------------------------------------------------------------------------
(* Output of an earlier run *)

\* the lines of run r in a sequence of lines
LinesOf(r, lines) == {i \in DOMAIN lines : lines[i][1] = r}

\* C33: while the output view is shown, every line of the buffer was written
\* by the run the view belongs to (the latest one started), and the total
\* counts the lines of that run only.
C33_OwnOutputOnly ==
    m.showOutput =>
        /\ \A i \in DOMAIN m.output : m.output[i][1] = nruns
        /\ m.totalOutputLines = Cardinality(LinesOf(nruns, hist))

----------------------------------------------------------------------------
(* The versions of the selected tool *)

\* the step handles a message of type t
Handles(t) == last'.msg.type = t /\ pending' # pending

\* C34: the version list shown at the SelectVersion step was loaded for the
\* selected tool: a version-load result that brings the picker to that step
\* is for the tool selected then, and the selected tool does not change while
\* the picker stays at the version or the config step.
C34_VersionsOfSelectedTool ==
    [][/\ (Handles("VersionsLoadedMsg") /\ m'.pickerState = pickerSelectVersion) =>
            last'.msg.Tool = m'.selectedTool
       /\ (m.pickerState \in {pickerSelectVersion, pickerSelectConfig}
           /\ m'.pickerState \in {pickerSelectVersion, pickerSelectConfig}) =>
            m'.selectedTool = m.selectedTool]_vars

\* the versions of node are listed while go is the selected tool
C34_OtherToolsVersions ==
    /\ m.pickerState = pickerSelectVersion
    /\ m.selectedTool = "go"
    /\ last.msg.type = "VersionsLoadedMsg"
    /\ last.msg.Tool = "node"
    /\ m.versionList.items = last.msg.Versions
----------------------------------------------------------------------------
(* The rows of the tasks table *)

\* C35: whenever no overlay is active, the tasks table shows the tasks, row
\* by row, and the source path the edit key opens with Tasks focused is that
\* of the task named in the selected row.
C35_RowsAreTasks ==
    (status = "running" /\ Overlays(m) = 0) =>
        /\ m.tasksTable.rows = TaskRows(m.tasks)
        /\ (m.focus = focusTasks /\ HasSelectedRow(m.tasksTable)) =>
               \E i \in DOMAIN m.tasks :
                   /\ m.tasks[i].name = SelectedRow(m.tasksTable)[1]
                   /\ getSelectedSourcePath(m) = m.tasks[i].source

----------------------------------------------------------------------------
(* The zero-value model *)

\* C36: the controller state is never the zero-value model, and whenever no
\* overlay is active, Tasks has the focus and there are tasks, the tasks
\* table has a selected row for the run keys to act on.
C36_NeverZeroModel ==
    /\ m # ZeroModel
    /\ (status = "running" /\ Overlays(m) = 0 /\ m.focus = focusTasks /\ m.tasks # <<>>) =>
           HasSelectedRow(m.tasksTable)

----------------------------------------------------------------------------
(* One piped task at a time *)

\* the keys that can start a piped task
RunKeys == {"enter", "alt+enter", "ctrl+enter", "ctrl+shift+enter"}

\* the task processes that have not ended
Alive(ps) == {p \in ps : p.exit = ""}

\* C37: a key starts a piped task only in a state where no task is running
\* and no cancellation handle is held; at most one task process is alive;
\* and a running task has its output view shown.
C37_OneTaskAtATime ==
    /\ status = "running" =>
           \A k \in RunKeys :
               Started(Pressed(k)) # {} => (~m.taskRunning /\ m.cancelFunc = 0)
    /\ Cardinality(Alive(procs)) <= 1
    /\ m.taskRunning => m.showOutput

\* the first run has ended and been closed, and a second run is running
C37_SecondRun ==
    /\ nruns = 2
    /\ dones = 1
    /\ m.taskRunning
    /\ m.cancelFunc = 2
    /\ last.msg = KeyMsg("enter")
    /\ \E p \in procs : p.run = 2 /\ p.exit = ""
    /\ hist = <<>>
----------------------------------------------------------------------------
(* The watcher at the end of the loop *)

\* C38: when the loop has ended no file watcher is open, and a step that
\* issues the quit command leaves no watcher open.
C38_NoWatcherAtQuit ==
    /\ status = "quit" => ~watcherOpen
    /\ (last.msg.type = "key" /\ Quit \in Range(last.cmds)) => ~watcherOpen
----------------------------------------------------------------------------
(* The end of watchLoop *)

\* C39: once Close has been called on a started watcher, watchLoop sends no
\* further FileChangedMsg and eventually returns; and a StartFileWatcher
\* that cannot watch a directory closes the watcher it created, returns nil
\* and the error, and starts no watchLoop.
C39_LoopEndsAfterClose ==
    /\ [][ret.out.w = "closed" => ret'.out.sent = ret.out.sent]_vars
    /\ (ret.out.w = "closed") ~> (ret.out.loop = "returned")
    /\ [](ret.out.err # Nil =>
            (ret.out.w = Nil /\ ret.out.created = "closed" /\ ret.out.loop = "none"))

\* the parts of C39 other than "no further FileChangedMsg"
C39_LoopReturns ==
    /\ (ret.out.w = "closed") ~> (ret.out.loop = "returned")
    /\ [](ret.out.err # Nil =>
            (ret.out.w = Nil /\ ret.out.created = "closed" /\ ret.out.loop = "none"))

\* a write to the config file is forwarded after Close was called
C39_SentAfterClose ==
    /\ ret.fn = "watchLoop"
    /\ ret.out.w = "closed"
    /\ ret.out.closes = 1
    /\ ret.out.taken = 1
    /\ Len(ret.out.sent) = 1
====
